---- MODULE Spec2Model ----
(***************************************************************************)
(* Model of the real-time aggregation-and-decision pipeline:               *)
(*   strategy/scanner.py          MarketScanner (bar store)                *)
(*   strategy/mtf_builder.py      MTFBuilder                               *)
(*   strategy/mtf_context.py      analyze_mtf                              *)
(*   strategy/market_regime.py    detect_market_regime                     *)
(*   strategy/vwap_filter.py      VWAPCalculator                           *)
(*   strategy/htf_bias.py         get_htf_bias                             *)
(*   strategy/breakout_detector.py breakout_signal                         *)
(*   strategy/decision_engine.py  final_trade_decision                     *)
(*   strategy/strategy_engine.py  StrategyEngine.evaluate                  *)
(*   core/market_streamer.py      on_message                               *)
(*                                                                         *)
(* Numbers.  Prices and volumes are integers (price ticks, volume lots of  *)
(* VolumeLot shares).  Times are minutes since the session start; an ISO   *)
(* timestamp "YYYY-MM-DDTHH:MM:00" is the minute it names.  Scores are     *)
(* fixed point: the suffix says the unit (x100 = hundredths, x1000 =       *)
(* thousandths, x10000 = ten-thousandths).  Quotients that the code        *)
(* compares with a threshold are compared by cross multiplication.         *)
(***************************************************************************)
EXTENDS Integers, Sequences, FiniteSets, TLC

VARIABLES
    max_len,        \* MarketScanner.max_len
    bars,           \* MarketScanner._bars : instrument -> deque of bars
    bars_closed,    \* MarketScanner.bars_closed
    bars_received,  \* MarketScanner.bars_received
    inserted,       \* history: per instrument, every bar ever inserted, in order
    closed,         \* history: for each of them, the bar as append_ohlc_bar inserted it
    locks,          \* MarketScanner._locks : instrument -> lock object
    held,           \* lock object -> the thread that holds it, 0 when it is free
    callbacks,      \* MarketScanner._on_bar_close_callbacks
    threads,        \* thread -> its stack of calls into the scanner, innermost last
    buffers,        \* MTFBuilder.buffers : instrument -> deque of 5m bars
    vwap,           \* StrategyEngine.vwap_calculators : instrument -> VWAPCalculator
    lastEval,       \* the last call of StrategyEngine.evaluate and how it ended
    nReEval,        \* number of direct calls of evaluate made so far
    fd,             \* the last call of final_trade_decision: its input and result
    q,              \* the last call of a detector or accessor: its input and result
    signals_today,  \* market_streamer.signals_today : day -> instruments signalled
    entries,        \* history: the calls of execution_engine.handle_entry
    today,          \* the date of the wall clock
    messages        \* number of feed messages on_message was called with

vars == <<max_len, bars, bars_closed, bars_received, inserted, closed,
          locks, held, callbacks, threads,
          buffers, vwap, lastEval, nReEval, fd, q,
          signals_today, entries, today, messages>>

storeVars == <<max_len, bars, bars_closed, bars_received, inserted, closed>>
threadVars == <<locks, held, callbacks, threads>>
engineVars == <<buffers, vwap, lastEval, nReEval>>
streamVars == <<signals_today, entries, today, messages>>
callVars == <<fd, q, threadVars, streamVars>>

-----------------------------------------------------------------------------
(* Bounds of the model                                                     *)

\* largest capacity the store specification constructs a scanner with
MaxCap == 2
\* number of ingestion calls (append_ohlc_bar, append_tick) in the store specification
MaxOps == 3
\* the feed of the engine specification is quiet up to this bar,
WarmupBars == 31
\* moves up to this bar and is quiet again afterwards
LiveUntil == 34
\* it moves once more at this bar, after the quiet stretch,
LateBar == 45
\* number of bars the feed of the engine specification delivers for the main instrument
MaxFeed == 46
\* number of direct calls of evaluate made after the feed
MaxReEvals == 1

\* length of the longer bar series handed to the detectors
DetectorBars == 30
\* number of calls the threads make into the scanner
MaxCalls == 2
\* number of bars fed before and between the calls of the accessors
MaxAccessorBars == 5
\* largest lookback handed to get_tf_history
MaxLookback == 3
\* the rolling window of the windowed calculator, and the session volume
\* after which no further update is made
MaxVwapWindow == 2
MaxSessionVolume == 6
\* length of the bar series handed to detect_market_regime
RegimeBars == 30
\* feed messages after the warm-up, and the days they fall on
MaxLiveMessages == 2
MaxDays == 2

Insts == {"A", "B"}
MainInst == "A"
Threads == {1, 2}

-----------------------------------------------------------------------------
(* Values                                                                  *)

None == [some |-> FALSE, v |-> 0]
Some(x) == [some |-> TRUE, v |-> x]

Abs(x) == IF x < 0 THEN -x ELSE x
Max2(a, b) == IF a >= b THEN a ELSE b
Min2(a, b) == IF a <= b THEN a ELSE b

\* round(a / b) to the nearest integer, b > 0 (ties away from zero)
RoundDiv(a, b) == IF a >= 0 THEN (2 * a + b) \div (2 * b)
                  ELSE -((2 * (-a) + b) \div (2 * b))

RECURSIVE SumSeq(_)
SumSeq(s) == IF s = <<>> THEN 0 ELSE s[1] + SumSeq(Tail(s))

RECURSIVE MaxSeq(_)
MaxSeq(s) == IF Len(s) = 1 THEN s[1] ELSE Max2(s[1], MaxSeq(Tail(s)))

RECURSIVE MinSeq(_)
MinSeq(s) == IF Len(s) = 1 THEN s[1] ELSE Min2(s[1], MinSeq(Tail(s)))

\* Python s[-n:] for n >= 0 (s[-0:] is the whole list)
LastN(s, n) == IF n = 0 \/ n >= Len(s) THEN s
               ELSE SubSeq(s, Len(s) - n + 1, Len(s))

\* Python s[a:b] with 0 <= a, b <= len(s), zero-based, b exclusive
Slice(s, a, b) == IF a >= b THEN <<>> ELSE SubSeq(s, a + 1, b)

\* Python s[-a:-b] for a > b > 0
SliceFromEnd(s, a, b) == Slice(s, Max2(Len(s) - a, 0), Max2(Len(s) - b, 0))

Field(s, f) == [k \in 1..Len(s) |-> s[k][f]]

MkBar(t, o, h, l, c, v) ==
    [time |-> t, open |-> o, high |-> h, low |-> l, close |-> c, volume |-> v]

-----------------------------------------------------------------------------
(* MarketScanner                                                           *)

\* mutant: a deque without maxlen
DequeAppendUnbounded(dq, x, cap) == Append(dq, x)

\* deque(maxlen=cap).append(x)
DequeAppend(dq, x, cap) ==
    IF cap = 0 THEN <<>>
    ELSE IF Len(dq) >= cap THEN Append(Tail(dq), x)
    ELSE Append(dq, x)

\* _ensure_inst: first touch registers the instrument with an empty deque
EnsureInst(b, inst) ==
    IF inst \in DOMAIN b THEN b
    ELSE [i \in DOMAIN b \cup {inst} |-> IF i = inst THEN <<>> ELSE b[i]]

\* _round_to_5min, then strftime
RoundTo5Min(t) == (t \div 5) * 5

\* mutant: any registered instrument has enough data
HasEnoughDataAnyLength(b, inst, min_bars) == inst \in DOMAIN b

\* has_enough_data
HasEnoughData(b, inst, min_bars) ==
    inst \in DOMAIN b /\ Len(b[inst]) >= min_bars

\* get_last_n_bars
GetLastNBars(b, inst, n) ==
    IF inst \notin DOMAIN b THEN <<>> ELSE LastN(b[inst], n)

WithLast(s, x) == [s EXCEPT ![Len(s)] = x]

\* the history of inserted bars after an insert / after an in-place update
Recorded(h, inst, bar) ==
    [i \in DOMAIN h \cup {inst} |->
        IF i = inst THEN Append(IF i \in DOMAIN h THEN h[i] ELSE <<>>, bar)
        ELSE h[i]]

\* _bars after append_ohlc_bar
BarsAppended(b, inst, bar) ==
    LET b1 == EnsureInst(b, inst)
    IN  [b1 EXCEPT ![inst] = DequeAppend(b1[inst], bar, max_len)]

\* append_ohlc_bar (no close-callback is registered)
AppendOhlcBar(inst, t, o, h, l, c, v) ==
    LET bar == MkBar(t, o, h, l, c, v)
    IN  /\ bars' = BarsAppended(bars, inst, bar)
        /\ bars_closed' = bars_closed + 1
        /\ inserted' = Recorded(inserted, inst, bar)
        /\ closed' = Recorded(closed, inst, Some(bar))
        /\ UNCHANGED <<max_len, bars_received>>

\* mutant: the merged tick moves the close and the volume only
TickMergedCloseOnly(bar, price, volume) ==
    [bar EXCEPT !.close = price, !.volume = bar.volume + volume]

\* the bar append_tick leaves at the end of the series when the bucket is the
\* one of the last stored bar
TickMerged(bar, price, volume) ==
    [bar EXCEPT !.high = Max2(bar.high, price),
                !.low = Min2(bar.low, price),
                !.close = price,
                !.volume = bar.volume + volume]

\* append_tick
AppendTick(inst, timestamp, price, volume) ==
    LET b1 == EnsureInst(bars, inst)
        t5 == RoundTo5Min(timestamp)
        s  == b1[inst]
    IN  /\ IF s = <<>> \/ s[Len(s)].time # t5
           THEN LET bar == MkBar(t5, price, price, price, price, volume)
                IN  /\ bars' = [b1 EXCEPT ![inst] = DequeAppend(s, bar, max_len)]
                    /\ inserted' = Recorded(inserted, inst, bar)
                    /\ closed' = Recorded(closed, inst, None)
           ELSE LET bar == TickMerged(s[Len(s)], price, volume)
                IN  /\ bars' = [b1 EXCEPT ![inst] = WithLast(s, bar)]
                    /\ inserted' = [inserted EXCEPT
                                       ![inst] = WithLast(inserted[inst], bar)]
                    /\ closed' = closed
        /\ bars_received' = bars_received + 1
        /\ UNCHANGED <<max_len, bars_closed>>

-----------------------------------------------------------------------------
(* MTFBuilder                                                              *)

\* max_5m_bars, the capacity of each 5m buffer
Max5mBars == 1200

\* _to_5min_iso: parse, round down to the 5-minute boundary, format
To5MinIso(t) == (t \div 5) * 5

\* mutant: the bar is not stored
MtfUpdateSkipped(buf, inst, t, o, h, l, c, v) == buf

\* update: buffers is a defaultdict, the first update of an instrument creates
\* its deque
MtfUpdate(buf, inst, t, o, h, l, c, v) ==
    LET bar == MkBar(To5MinIso(t), o, h, l, c, v)
        old == IF inst \in DOMAIN buf THEN buf[inst] ELSE <<>>
    IN  [i \in DOMAIN buf \cup {inst} |->
            IF i = inst THEN DequeAppend(old, bar, Max5mBars) ELSE buf[i]]

\* _aggregate, for a non-empty list of bars
Aggregate(bs) ==
    [time_start |-> bs[1].time,
     time_end   |-> bs[Len(bs)].time,
     open       |-> bs[1].open,
     high       |-> MaxSeq(Field(bs, "high")),
     low        |-> MinSeq(Field(bs, "low")),
     close      |-> bs[Len(bs)].close,
     volume     |-> SumSeq(Field(bs, "volume"))]

\* buffers.get(inst_key): a missing instrument and an empty deque are both falsy
BufferOf(buf, inst) == IF inst \in DOMAIN buf THEN buf[inst] ELSE <<>>

\* get_latest_tf
GetLatestTf(buf, inst, minutes) ==
    LET bs  == BufferOf(buf, inst)
        req == minutes \div 5
    IN  IF bs = <<>> THEN None
        ELSE IF Len(bs) < req THEN None
        ELSE Some(Aggregate(LastN(bs, req)))

\* the loop of get_tf_history from index i down to 1
RECURSIVE TfHistoryFrom(_, _, _)
TfHistoryFrom(bs, req, i) ==
    IF i = 0 THEN <<>>
    ELSE LET end   == Len(bs) - (i - 1) * req
             start == end - req
         IN  (IF start < 0 THEN <<>> ELSE <<Aggregate(Slice(bs, start, end))>>)
             \o TfHistoryFrom(bs, req, i - 1)

\* get_tf_history, for minutes >= 5 (_aggregate of an empty chunk raises)
GetTfHistory(buf, inst, minutes, lookback) ==
    LET bs == BufferOf(buf, inst)
    IN  IF bs = <<>> THEN <<>> ELSE TfHistoryFrom(bs, minutes \div 5, lookback)

\* get_tf_history raises IndexError: _aggregate is handed an empty chunk
GetTfHistoryRaises(buf, inst, minutes, lookback) ==
    LET bs  == BufferOf(buf, inst)
        req == minutes \div 5
    IN  /\ bs # <<>>
        /\ \E i \in 1..lookback :
              LET end   == Len(bs) - (i - 1) * req
                  start == end - req
              IN  start >= 0 /\ Slice(bs, start, end) = <<>>

GetLatest15m(buf, inst) == GetLatestTf(buf, inst, 15)
GetLatest30m(buf, inst) == GetLatestTf(buf, inst, 30)

-----------------------------------------------------------------------------
(* analyze_mtf (scores x100)                                               *)

\* _is_bullish / _is_bearish of a candle that is present
IsBullish(c) == c.close > c.open
IsBearish(c) == c.close < c.open

CountIf(s, bull) ==
    Cardinality({k \in 1..Len(s) : IF bull THEN IsBullish(s[k]) ELSE IsBearish(s[k])})

\* _persistence_score
PersistenceScore(history) ==
    IF Len(history) < 2 THEN 0
    ELSE LET last == LastN(history, 3)
             bull == CountIf(last, TRUE)
             bear == CountIf(last, FALSE)
         IN  IF bull = 3 \/ bear = 3 THEN 60
             ELSE IF bull >= 2 \/ bear >= 2 THEN 30
             ELSE 0

\* the 15m/30m conflict test
MtfConflict(c15, c30) ==
    /\ c15.some /\ c30.some
    /\ \/ IsBullish(c15.v) /\ IsBearish(c30.v)
       \/ IsBearish(c15.v) /\ IsBullish(c30.v)

\* the direction votes of the two candles
MtfVotes(c15, c30) ==
    (IF c15.some /\ IsBullish(c15.v) THEN 80
     ELSE IF c15.some /\ IsBearish(c15.v) THEN -80 ELSE 0)
    + (IF c30.some /\ IsBullish(c30.v) THEN 140
       ELSE IF c30.some /\ IsBearish(c30.v) THEN -140 ELSE 0)

\* analyze_mtf
AnalyzeMtf(c15, c30, h15, h30) ==
    LET conflict == MtfConflict(c15, c30)
        votes    == MtfVotes(c15, c30)
        damped   == IF conflict THEN (votes * 7) \div 10 ELSE votes
        score    == damped + PersistenceScore(h15) + PersistenceScore(h30)
        strength == Min2(Abs(score), 200)
        \* in binary floating point -0.8 + 0.6 + 0.6 is 0.3999999999999999,
        \* the one sum of these terms that falls on the other side of 0.4
        short    == /\ votes = -80 /\ ~conflict
                    /\ PersistenceScore(h15) = 60 /\ PersistenceScore(h30) = 60
    IN  [direction  |-> IF Abs(score) < 40 \/ short THEN "NEUTRAL"
                        ELSE IF score > 0 THEN "BULLISH" ELSE "BEARISH",
         strength   |-> strength,
         confidence |-> IF strength >= 110 /\ ~conflict THEN "HIGH"
                        ELSE IF strength >= 60 THEN "MEDIUM" ELSE "LOW",
         conflict   |-> conflict]

-----------------------------------------------------------------------------
(* True range, ATR, ADX (market_regime.py and volatility_filter.py hold    *)
(* the same compute_true_range and compute_atr)                            *)

\* period of every ATR and ADX the pipeline computes
AtrPeriod == 14

\* compute_true_range
TrueRange(highs, lows, closes) ==
    IF Len(highs) < 2 THEN <<>>
    ELSE [k \in 1..(Len(highs) - 1) |->
             Max2(highs[k + 1] - lows[k + 1],
                  Max2(Abs(highs[k + 1] - closes[k]), Abs(lows[k + 1] - closes[k])))]

\* compute_atr; the value is period * ATR (the sum of the last `period` true
\* ranges), so that ATR = v / period stays exact
ComputeAtr(highs, lows, closes, period) ==
    LET tr == TrueRange(highs, lows, closes)
    IN  IF Len(tr) < period THEN None ELSE Some(SumSeq(LastN(tr, period)))

\* plus_dm / minus_dm of compute_adx
PlusDm(highs, lows) ==
    [k \in 1..(Len(highs) - 1) |->
        LET up == highs[k + 1] - highs[k]
            down == lows[k] - lows[k + 1]
        IN  IF up > down /\ up > 0 THEN up ELSE 0]

MinusDm(highs, lows) ==
    [k \in 1..(Len(highs) - 1) |->
        LET up == highs[k + 1] - highs[k]
            down == lows[k] - lows[k + 1]
        IN  IF down > up /\ down > 0 THEN down ELSE 0]

\* compute_adx; the value is the fraction num / den = dx (plus_di and minus_di
\* share the factor 100 / atr, which cancels in dx)
ComputeAdx(highs, lows, closes, period) ==
    IF Len(highs) < period + 1 THEN None
    ELSE LET atr == ComputeAtr(highs, lows, closes, period)
             p   == SumSeq(LastN(PlusDm(highs, lows), period))
             m   == SumSeq(LastN(MinusDm(highs, lows), period))
         IN  IF ~atr.some \/ atr.v = 0 THEN None
             ELSE IF p + m = 0 THEN Some([num |-> 0, den |-> 1])
             ELSE Some([num |-> 100 * Abs(p - m), den |-> p + m])

\* adx >= k, adx > k for an integer k
AdxGe(adx, k) == adx.num >= k * adx.den
AdxGt(adx, k) == adx.num > k * adx.den
\* adx in thousandths (truncated)
AdxX1000(adx) == (adx.num * 1000) \div adx.den

-----------------------------------------------------------------------------
(* detect_market_regime (strength x1000, volatility x10000)                *)

RegimeMinBars == 25

\* cap
Cap10(x) == Max2(0, Min2(10000, x))

WeakRegime(strength, vol) ==
    [state |-> "WEAK", mode |-> "RANGE_DAY", strength |-> strength, volatility |-> vol]

\* detect_market_regime without an index regime
DetectMarketRegime(highs, lows, closes) ==
    IF Len(highs) < RegimeMinBars \/ Len(lows) < RegimeMinBars
       \/ Len(closes) < RegimeMinBars
    THEN WeakRegime(500, 0)
    ELSE
    LET adxm == ComputeAdx(highs, lows, closes, AtrPeriod)
        atr  == ComputeAtr(highs, lows, closes, AtrPeriod)
    IN  IF ~adxm.some \/ ~atr.some THEN WeakRegime(500, 0)
        ELSE
        LET adx      == adxm.v
            recent_n == Min2(10, Len(closes))
            sumc     == SumSeq(LastN(closes, recent_n))
            \* vol_norm = atr / avg_price = (atr.v / 14) / (sumc / recent_n)
            vol      == IF sumc > 0
                        THEN (atr.v * recent_n * 10000) \div (AtrPeriod * sumc)
                        ELSE 0
            volLow   == IF sumc > 0
                        THEN atr.v * recent_n * 1000 < 8 * AtrPeriod * sumc
                        ELSE TRUE
            rr       == MaxSeq(LastN(highs, 10)) - MinSeq(LastN(lows, 10))
            ph       == IF Len(highs) >= 20 THEN SliceFromEnd(highs, 20, 10)
                        ELSE Slice(highs, 0, Len(highs) \div 2)
            pl       == IF Len(lows) >= 20 THEN SliceFromEnd(lows, 20, 10)
                        ELSE Slice(lows, 0, Len(lows) \div 2)
            pr0      == IF ph # <<>> /\ pl # <<>> THEN MaxSeq(ph) - MinSeq(pl) ELSE 0
            \* prev_range <= 0 is replaced by max(recent_range * 0.8, 1e-9);
            \* pr10 is 10 * prev_range, tiny says it is the 1e-9
            tiny     == pr0 <= 0 /\ rr <= 0
            pr10     == IF pr0 > 0 THEN 10 * pr0 ELSE 8 * rr
            \* recent_range > prev_range * 1.3
            expanded == IF tiny THEN FALSE ELSE 100 * rr > 13 * pr10
            \* recent_range < prev_range * 0.7
            shrunk   == IF tiny THEN TRUE ELSE 100 * rr < 7 * pr10
            \* recent_range < prev_range * 0.85
            shrunk85 == IF tiny THEN TRUE ELSE 1000 * rr < 85 * pr10
            a1000    == AdxX1000(adx)
        IN  IF AdxGe(adx, 15) /\ expanded
            THEN [state |-> "EARLY_TREND", mode |-> "TREND_DAY",
                  strength |-> Cap10(4500 + ((a1000 - 15000) * 2) \div 10),
                  volatility |-> vol]
            ELSE IF AdxGe(adx, 22)
            THEN [state |-> "TRENDING", mode |-> "TREND_DAY",
                  strength |-> Cap10(6500 + ((a1000 - 22000) * 15) \div 100),
                  volatility |-> vol]
            ELSE IF shrunk
            THEN [state |-> "COMPRESSION", mode |-> "RANGE_DAY",
                  strength |-> Cap10(2500 + (IF tiny THEN 500
                                             ELSE ((pr10 - 10 * rr) * 1000) \div pr10)),
                  volatility |-> vol]
            ELSE IF AdxGt(adx, 28) /\ shrunk85 /\ volLow
            THEN [state |-> "EXHAUSTION", mode |-> "RANGE_DAY",
                  strength |-> Cap10(3500 + (a1000 - 28000) \div 10),
                  volatility |-> vol]
            ELSE WeakRegime(Cap10(1500 + (a1000 * 12) \div 300), vol)

-----------------------------------------------------------------------------
(* VWAPCalculator (window = None, slope_window = 3).  A VWAP value is kept *)
(* as the exact fraction pv / vol of the two running sums.                 *)

SlopeWindow == 3

\* VWAPCalculator(window) after __init__ / reset: a window of 0 stands for the default None, both
\* select the session sums and create no window deques
NewVwapCalculator(window) ==
    [window |-> window, price_volume_sum |-> 0, volume_sum |-> 0, vwap_history |-> <<>>,
     price_volume_deque |-> <<>>, volume_deque |-> <<>>]

\* an update that accepted every volume handed to it
VwapUpdateAnyVolume(calc, price, volume) ==
    IF ~price.some \/ ~volume.some THEN calc
    ELSE LET windowed == calc.window > 0
             pvd == IF windowed
                    THEN DequeAppend(calc.price_volume_deque, price.v * volume.v,
                                     calc.window)
                    ELSE calc.price_volume_deque
             vd  == IF windowed
                    THEN DequeAppend(calc.volume_deque, volume.v, calc.window)
                    ELSE calc.volume_deque
             pv  == IF windowed THEN SumSeq(pvd)
                    ELSE calc.price_volume_sum + price.v * volume.v
             vol == IF windowed THEN SumSeq(vd) ELSE calc.volume_sum + volume.v
         IN  [window             |-> calc.window,
              price_volume_sum   |-> pv,
              volume_sum         |-> vol,
              vwap_history       |-> IF vol <= 0 THEN calc.vwap_history
                                     ELSE DequeAppend(calc.vwap_history,
                                                      [pv |-> pv, vol |-> vol],
                                                      SlopeWindow),
              price_volume_deque |-> pvd,
              volume_deque       |-> vd]

\* update(price, volume) of an optional price and an optional volume: the
\* calculator after the call
VwapUpdate(calc, price, volume) ==
    IF ~price.some \/ ~volume.some \/ volume.v <= 0 THEN calc
    ELSE LET windowed == calc.window > 0
             pvd == IF windowed
                    THEN DequeAppend(calc.price_volume_deque, price.v * volume.v,
                                     calc.window)
                    ELSE calc.price_volume_deque
             vd  == IF windowed
                    THEN DequeAppend(calc.volume_deque, volume.v, calc.window)
                    ELSE calc.volume_deque
             pv  == IF windowed THEN SumSeq(pvd)
                    ELSE calc.price_volume_sum + price.v * volume.v
             vol == IF windowed THEN SumSeq(vd) ELSE calc.volume_sum + volume.v
         IN  [window             |-> calc.window,
              price_volume_sum   |-> pv,
              volume_sum         |-> vol,
              vwap_history       |-> IF vol <= 0 THEN calc.vwap_history
                                     ELSE DequeAppend(calc.vwap_history,
                                                      [pv |-> pv, vol |-> vol],
                                                      SlopeWindow),
              price_volume_deque |-> pvd,
              volume_deque       |-> vd]

\* get_vwap
GetVwap(calc) ==
    IF calc.volume_sum <= 0 THEN None
    ELSE Some([pv |-> calc.price_volume_sum, vol |-> calc.volume_sum])

\* the value update(price, volume) returns
VwapUpdateReturn(calc, price, volume) ==
    IF ~price.some \/ ~volume.some \/ volume.v <= 0 THEN None
    ELSE GetVwap(VwapUpdate(calc, price, volume))

\* sign of a - b for two VWAP values
FracCmp(a, b) ==
    LET d == a.pv * b.vol - b.pv * a.vol
    IN  IF d > 0 THEN 1 ELSE IF d < 0 THEN -1 ELSE 0

NeutralVwapContext ==
    [vwap |-> None, distance_pct |-> 0, slope |-> 0, acceptance |-> "NEAR",
     pressure |-> "NEUTRAL", score |-> 0]

\* get_context(price), for positive prices: distance_pct in thousandths of a
\* percent, slope as its sign, score x100
VwapGetContext(calc, price) ==
    LET vw == GetVwap(calc)
    IN  IF ~vw.some THEN NeutralVwapContext
        ELSE
        LET pv    == vw.v.pv
            vol   == vw.v.vol
            diff  == price * vol - pv          \* (price - vwap) * vol
            hist  == calc.vwap_history
            slope == IF Len(hist) >= 2 THEN FracCmp(hist[Len(hist)], hist[1]) ELSE 0
            acc   == IF diff * 1000 > 3 * pv THEN "ABOVE"
                     ELSE IF diff * 1000 < -3 * pv THEN "BELOW"
                     ELSE "NEAR"
            raw   == IF acc = "ABOVE" /\ slope > 0 THEN 150
                     ELSE IF acc = "BELOW" /\ slope < 0 THEN -150
                     ELSE IF acc = "NEAR" THEN 0
                     ELSE -30
        IN  [vwap         |-> vw,
             distance_pct |-> RoundDiv(diff * 100000, pv),
             slope        |-> slope,
             acceptance   |-> acc,
             pressure     |-> IF acc = "ABOVE" /\ slope > 0 THEN "BUYING"
                              ELSE IF acc = "BELOW" /\ slope < 0 THEN "SELLING"
                              ELSE "NEUTRAL",
             score        |-> Max2(Min2(raw, 120), -120)]

-----------------------------------------------------------------------------
(* analyze_volume, volume_spike_confirmed (score x100)                     *)

StrictlyRising(s) == \A k \in 1..(Len(s) - 1) : s[k + 1] > s[k]
StrictlyFalling(s) == \A k \in 1..(Len(s) - 1) : s[k + 1] < s[k]

\* analyze_volume; close_prices = <<>> stands for an absent or empty list
AnalyzeVolume(volume_history, close_prices, lookback, rising_bars) ==
    IF Len(volume_history) < lookback + rising_bars
    THEN [score |-> 0, strength |-> "NONE", trend |-> "FLAT"]
    ELSE
    LET total == SumSeq(LastN(volume_history, lookback))
        cur   == volume_history[Len(volume_history)]
        \* rel = cur / (total / lookback) when total > 0, else 1.0
        \* rel >= k / 20
        relGe(k) == IF total > 0 THEN cur * lookback * 20 >= k * total
                    ELSE 20 >= k
        strength == IF relGe(32) THEN "STRONG"
                    ELSE IF relGe(28) THEN "MODERATE"
                    ELSE IF relGe(19) THEN "WEAK"
                    ELSE "NONE"
        base  == CASE strength = "STRONG" -> 200
                   [] strength = "MODERATE" -> 120
                   [] strength = "WEAK" -> 40
                   [] OTHER -> -50
        last_n == LastN(volume_history, rising_bars)
        trend == IF StrictlyRising(last_n) THEN "RISING"
                 ELSE IF StrictlyFalling(last_n) THEN "FALLING"
                 ELSE "FLAT"
        t     == IF trend = "RISING" THEN 50 ELSE IF trend = "FALLING" THEN -50 ELSE 0
        absorb == /\ close_prices # <<>>
                  /\ Len(close_prices) >= rising_bars
                  /\ LET cl == close_prices[Len(close_prices)]
                         mv == cl - close_prices[Len(close_prices) - rising_bars + 1]
                     IN  Abs(mv) * 1000 < 2 * cl
                  /\ strength \in {"STRONG", "MODERATE"}
        score == base + t - (IF absorb THEN 70 ELSE 0)
    IN  [score |-> Max2(Min2(score, 200), -200), strength |-> strength, trend |-> trend]

\* volume_spike_confirmed (threshold_multiplier is not used by the code)
VolumeSpikeConfirmed(volume_history, threshold_multiplier) ==
    AnalyzeVolume(volume_history, <<>>, 20, 4).score > 50

-----------------------------------------------------------------------------
(* analyze_volatility (score x100)                                         *)

\* analyze_volatility without an ATR history; atr is period * ATR
AnalyzeVolatility(current_move, atr) ==
    IF ~atr.some \/ atr.v <= 0 THEN [state |-> "UNKNOWN", score |-> 0]
    ELSE LET m == Abs(current_move) * AtrPeriod * 100   \* 100 * move_pct_atr * atr.v
         IN  IF m < 75 * atr.v THEN [state |-> "CONTRACTING", score |-> -60]
             ELSE IF m < 120 * atr.v THEN [state |-> "BUILDING", score |-> 20]
             ELSE IF m < 160 * atr.v THEN [state |-> "EXPANDING", score |-> 110]
             ELSE [state |-> "EXHAUSTION", score |-> -100]

-----------------------------------------------------------------------------
(* analyze_liquidity (score x100)                                          *)

MinAvgVolume == 250000
LiquidityLookback == 12

\* an analyze_liquidity that rated LOW above MEDIUM
AnalyzeLiquidityLowAboveMedium(volume_history, min_avg_volume, lookback) ==
    IF Len(volume_history) < lookback
    THEN [score |-> -200, level |-> "ILLIQUID", consistency |-> "UNSTABLE"]
    ELSE
    LET recent == LastN(volume_history, lookback)
        total  == SumSeq(recent)                        \* avg_vol * lookback
        level  == IF total >= min_avg_volume * 4 * lookback THEN "HIGH"
                  ELSE IF total >= min_avg_volume * 2 * lookback THEN "MEDIUM"
                  ELSE IF total >= min_avg_volume * lookback THEN "LOW"
                  ELSE "ILLIQUID"
        base   == CASE level = "HIGH" -> 200
                    [] level = "MEDIUM" -> 120
                    [] level = "LOW" -> 150
                    [] OTHER -> -150
        non_zero == Cardinality({k \in 1..Len(recent) : recent[k] > 0})
        \* consistency_ratio < 0.80
        unstable == non_zero * 100 < 80 * lookback
        score  == IF unstable THEN base - 80 ELSE base
    IN  [score |-> Max2(Min2(score, 200), -200),
         level |-> level,
         consistency |-> IF unstable THEN "UNSTABLE" ELSE "STABLE"]

\* analyze_liquidity
AnalyzeLiquidity(volume_history, min_avg_volume, lookback) ==
    IF Len(volume_history) < lookback
    THEN [score |-> -200, level |-> "ILLIQUID", consistency |-> "UNSTABLE"]
    ELSE
    LET recent == LastN(volume_history, lookback)
        total  == SumSeq(recent)                        \* avg_vol * lookback
        level  == IF total >= min_avg_volume * 4 * lookback THEN "HIGH"
                  ELSE IF total >= min_avg_volume * 2 * lookback THEN "MEDIUM"
                  ELSE IF total >= min_avg_volume * lookback THEN "LOW"
                  ELSE "ILLIQUID"
        base   == CASE level = "HIGH" -> 200
                    [] level = "MEDIUM" -> 120
                    [] level = "LOW" -> 50
                    [] OTHER -> -150
        non_zero == Cardinality({k \in 1..Len(recent) : recent[k] > 0})
        \* consistency_ratio < 0.80
        unstable == non_zero * 100 < 80 * lookback
        score  == IF unstable THEN base - 80 ELSE base
    IN  [score |-> Max2(Min2(score, 200), -200),
         level |-> level,
         consistency |-> IF unstable THEN "UNSTABLE" ELSE "STABLE"]

-----------------------------------------------------------------------------
(* price_action.py (pullback depth and rejection, score x1000)             *)

\* detect_pullback_in_trend without EMAs (lookback 4, max_depth_pct 0.001):
\* the type of the pullback, "NONE" when there is none
DetectPullbackInTrend(prices) ==
    IF Len(prices) < 5 THEN "NONE"
    ELSE LET last == prices[Len(prices)]
             w    == SliceFromEnd(prices, 5, 1)
             rh   == MaxSeq(w)
             rl   == MinSeq(w)
         IN  IF rh <= 0 \/ rl <= 0 THEN "NONE"
             \* 0 < (rh - last) / rh <= 0.001 * 0.8
             ELSE IF rh - last > 0 /\ (rh - last) * 10000 <= 8 * rh THEN "PULLBACK_UP"
             ELSE IF last - rl > 0 /\ (last - rl) * 10000 <= 8 * rl THEN "PULLBACK_DOWN"
             ELSE "NONE"

\* min(1.0, (rel - 0.12) / 0.6) rounded to 3 places, for rel = wick / range
WickScore(wick, range) ==
    IF range <= 0 THEN 1000
    ELSE Min2(1000, RoundDiv((100 * wick - 12 * range) * 1000, 60 * range))

\* rejection_info: total_range = max(high - low, 1e-9)
RejectionInfo(open_p, high, low, close) ==
    LET body  == Abs(close - open_p)
        range == high - low
        upper == Max2(0, high - Max2(close, open_p))
        lower == Max2(0, Min2(close, open_p) - low)
        \* wick_rel > body_rel * 1.5 and wick_rel > 0.12
        long(w) == /\ 10 * w > 15 * body
                   /\ IF range <= 0 THEN w > 0 ELSE 100 * w > 12 * range
        \* the noise guard: (wick_rel - 0.12) / 0.6 < 0.05
        noise(w) == range > 0 /\ 100 * w < 15 * range
    IN  IF long(lower) /\ ~noise(lower)
        THEN [rejection_type |-> "BULLISH", rejection_score |-> WickScore(lower, range)]
        ELSE IF ~long(lower) /\ long(upper) /\ ~noise(upper)
        THEN [rejection_type |-> "BEARISH", rejection_score |-> WickScore(upper, range)]
        ELSE [rejection_type |-> "NONE", rejection_score |-> 0]

\* price_action_context without EMAs
PriceActionContext(prices, highs, lows, opens, closes) ==
    IF prices = <<>> \/ highs = <<>> \/ lows = <<>> \/ closes = <<>> \/ Len(prices) < 6
    THEN [pullback |-> "NONE", rejection_type |-> "NONE", rejection_score |-> 0,
          score |-> 0]
    ELSE
    LET pb  == DetectPullbackInTrend(prices)
        rej == RejectionInfo(opens[Len(opens)], highs[Len(highs)],
                             lows[Len(lows)], closes[Len(closes)])
        \* x10000
        raw == (IF pb = "PULLBACK_UP" THEN 2500
                ELSE IF pb = "PULLBACK_DOWN" THEN -2500 ELSE 0)
               + (IF rej.rejection_type = "BULLISH" THEN 4 * rej.rejection_score
                  ELSE IF rej.rejection_type = "BEARISH" THEN -4 * rej.rejection_score
                  ELSE 0)
        capped == Max2(Min2(raw, 10000), -10000)
    IN  [pullback |-> pb, rejection_type |-> rej.rejection_type,
         rejection_score |-> rej.rejection_score,
         score |-> RoundDiv(capped, 10)]

-----------------------------------------------------------------------------
(* get_htf_bias (strength x100).  exponential_moving_average lives in      *)
(* strategy/indicators.py; its results are an input here: ema holds the    *)
(* short and long EMA of prices and of prices[:-5], in hundredths of a     *)
(* price tick, each possibly unavailable.                                  *)

HtfShortPeriod == 14
HtfLongPeriod == 34

\* a neutral bias without strength
NeutralBiasZero(strength) == [direction |-> "NEUTRAL", strength |-> 0, label |-> "NEUTRAL"]

NeutralBias(strength) == [direction |-> "NEUTRAL", strength |-> strength, label |-> "NEUTRAL"]

\* get_htf_bias; vwap_value is a VWAP fraction or None
GetHtfBias(prices, vwap_value, ema) ==
    IF Len(prices) < HtfLongPeriod + 5 THEN NeutralBias(50)
    ELSE IF ~ema.short.some \/ ~ema.long.some THEN NeutralBias(50)
    ELSE
    LET price    == prices[Len(prices)]
        ema_diff == ema.short.v - ema.long.v
    IN  IF ema_diff = 0 THEN NeutralBias(100)
        ELSE
        LET direction == IF ema_diff > 0 THEN "BULLISH" ELSE "BEARISH"
            slice     == LastN(prices, Min2(20, Len(prices)))
            rr        == MaxSeq(slice) - MinSeq(slice)
            \* x10000
            base      == IF rr <= 0 THEN 15000
                         ELSE Min2((Abs(ema_diff) * 1000) \div rr, 60000)
            past_diff == ema.past_short.v - ema.past_long.v
            mature    == /\ Len(prices) >= HtfLongPeriod + 10
                         /\ ema.past_short.some /\ ema.past_long.some
                         /\ \/ direction = "BULLISH" /\ past_diff > 0
                            \/ direction = "BEARISH" /\ past_diff < 0
            \* dist = (price - vwap) / vwap against vwap_tolerance = 0.008
            hasVwap   == vwap_value.some /\ vwap_value.v.pv > 0
            diff      == price * vwap_value.v.vol - vwap_value.v.pv
            above     == hasVwap /\ diff * 1000 > 8 * vwap_value.v.pv
            below     == hasVwap /\ diff * 1000 < -8 * vwap_value.v.pv
            nudge     == IF direction = "BULLISH"
                         THEN (IF above THEN 10000 ELSE IF below THEN -10000 ELSE 0)
                         ELSE (IF below THEN 10000 ELSE IF above THEN -10000 ELSE 0)
            total     == base + (IF mature THEN 10000 ELSE 0) + nudge
            strength  == Max2(80, Min2(RoundDiv(total, 100), 1000))
        IN  [direction |-> direction,
             strength  |-> strength,
             label     |-> IF direction = "BULLISH"
                           THEN (IF strength >= 600 THEN "BULLISH_STRONG" ELSE "BULLISH_WEAK")
                           ELSE (IF strength >= 600 THEN "BEARISH_STRONG" ELSE "BEARISH_WEAK")]

-----------------------------------------------------------------------------
(* breakout_detector.py                                                    *)

BreakoutMinBars == 25

\* detect_compression (lookback 20, compression_ratio 0.65)
DetectCompression(prices) ==
    IF Len(prices) < 40 THEN FALSE
    ELSE LET recent == LastN(prices, 20)
             prev   == SliceFromEnd(prices, 40, 20)
             rr     == MaxSeq(recent) - MinSeq(recent)
             pr     == MaxSeq(prev) - MinSeq(prev)
         IN  IF pr <= 0 THEN FALSE ELSE 100 * rr < 65 * pr

\* the ATR expansion test of breakout_signal (atr_multiplier 1)
AtrExpansionOk(prices, highs, lows, closes) ==
    /\ highs # <<>> /\ lows # <<>> /\ closes # <<>>
    /\ LET atr == ComputeAtr(highs, lows, closes, AtrPeriod)
       IN  /\ atr.some /\ atr.v # 0
           /\ Abs(prices[Len(prices)] - prices[Len(prices) - 1]) * AtrPeriod >= atr.v

\* the volume participation test of breakout_signal (vol_threshold 1.4)
VolumeOk(volume_history) ==
    /\ Len(volume_history) >= 20
    /\ VolumeSpikeConfirmed(volume_history, 14)

\* CONFIRMED requires the ATR or the volume confirmation
BreakoutClass(atr_ok, volume_ok) == IF atr_ok \/ volume_ok THEN "CONFIRMED" ELSE "POTENTIAL"

\* breakout_signal with the default parameters; intent_score x10
BreakoutSignal(prices, volume_history, highs, lows, closes) ==
    IF Len(prices) < BreakoutMinBars THEN None
    ELSE
    LET last_price == prices[Len(prices)]
        base       == SliceFromEnd(prices, 21, 1)
        range_high == MaxSeq(base)
        range_low  == MinSeq(base)
    IN  IF ~(last_price > range_high) /\ ~(last_price < range_low) THEN None
        ELSE
        LET atr_ok    == AtrExpansionOk(prices, highs, lows, closes)
            volume_ok == VolumeOk(volume_history)
        IN  Some([signal       |-> BreakoutClass(atr_ok, volume_ok),
                  direction    |-> IF last_price > range_high THEN "LONG" ELSE "SHORT",
                  intent_score |-> (IF DetectCompression(prices) THEN 10 ELSE 0)
                                   + (IF atr_ok THEN 15 ELSE 0)
                                   + (IF volume_ok THEN 12 ELSE 0),
                  range_high   |-> range_high,
                  range_low    |-> range_low,
                  last_price   |-> last_price,
                  atr_ok       |-> atr_ok,
                  volume_ok    |-> volume_ok])

-----------------------------------------------------------------------------
(* detect_pullback_signal (scores x100).  compute_sr_levels and            *)
(* get_nearest_sr live in strategy/sr_levels.py; the nearest level, None   *)
(* or [type, dist_pct] with dist_pct in ten-thousandths, is the input      *)
(* nearest.                                                                *)

PullbackMinBars == 30
\* max_proximity, in ten-thousandths
MaxProximity == 300
ConfirmedThreshold == 420
PotentialThreshold == 280

\* step 1: the direction the nearest level and the HTF direction give
PullbackDirection(nearest, htf_direction) ==
    IF nearest.v.type = "support" /\ htf_direction = "BULLISH" THEN "LONG"
    ELSE IF nearest.v.type = "resistance" /\ htf_direction = "BEARISH" THEN "SHORT"
    ELSE ""

\* step 2: recent_move > atr * 2.0, atr being period * ATR
PullbackExtended(closes, atr) ==
    /\ atr.some /\ atr.v # 0
    /\ Abs(closes[Len(closes)] - closes[Len(closes) - 5]) * AtrPeriod > 2 * atr.v

\* steps 3 to 7: the component scores
PullbackComponents(trade_direction, highs, lows, closes, volumes, nearest, atr) ==
    LET n         == Len(closes)
        volat_ctx == AnalyzeVolatility(closes[n] - closes[n - 1], atr)
        rej       == RejectionInfo(closes[n - 1], highs[Len(highs)], lows[Len(lows)], closes[n])
        recent_range     == MaxSeq(LastN(highs, 5)) - MinSeq(LastN(lows, 5))
        vol_ctx          == AnalyzeVolume(volumes, closes, 12, 3)
        short_term_trend == closes[n] - closes[n - 4]
    IN  [volatility |->
             CASE volat_ctx.state = "EXPANDING" -> 150
               [] volat_ctx.state = "BUILDING" -> 80
               [] volat_ctx.state = "CONTRACTING" -> 20
               [] OTHER -> 0,
         price_action |->
             (IF trade_direction = "LONG" /\ rej.rejection_type = "BULLISH" THEN 180 ELSE 0)
             + (IF trade_direction = "SHORT" /\ rej.rejection_type = "BEARISH" THEN 180 ELSE 0)
             + (IF trade_direction = "LONG" /\ closes[n] > closes[n - 2] THEN 100 ELSE 0)
             + (IF trade_direction = "SHORT" /\ closes[n] < closes[n - 2] THEN 100 ELSE 0)
             + (IF atr.some /\ atr.v # 0 /\ recent_range * AtrPeriod * 10 < 7 * atr.v
                THEN 80 ELSE 0),
         volume |->
             IF vol_ctx.score >= 100 THEN 150
             ELSE IF vol_ctx.score >= 20 THEN 80
             ELSE IF vol_ctx.score >= 0 THEN 30
             ELSE 0,
         momentum |->
             IF trade_direction = "LONG" /\ short_term_trend > 0 THEN 100
             ELSE IF trade_direction = "SHORT" /\ short_term_trend < 0 THEN 100
             ELSE 0,
         \* min(max(0, (max_proximity - dist_pct) * 40), 2.0), rounded to 2 places
         location |->
             Min2(Max2(0, RoundDiv((MaxProximity - nearest.v.dist_pct) * 4, 10)), 200)]

\* the component tuples <<location, price_action, volume, volatility,
\* momentum, extended>> whose decimal total is 4.20 while the sum of the
\* floats, added in this order, is 4.199999999999999
FloatSumShort ==
    {<<10, 280, 30, 0, 100, FALSE>>, <<30, 260, 30, 0, 100, FALSE>>,
     <<30, 280, 30, 80, 0, FALSE>>, <<30, 280, 30, 80, 100, TRUE>>,
     <<40, 280, 0, 0, 100, FALSE>>, <<50, 360, 30, 80, 0, TRUE>>,
     <<60, 180, 30, 150, 0, FALSE>>, <<60, 180, 30, 150, 100, TRUE>>,
     <<60, 280, 30, 150, 0, TRUE>>, <<80, 280, 80, 80, 0, TRUE>>,
     <<90, 280, 0, 150, 0, TRUE>>, <<90, 280, 30, 20, 0, FALSE>>,
     <<90, 280, 30, 20, 100, TRUE>>, <<90, 280, 150, 0, 0, TRUE>>}

\* step 8: total_score in ten-thousandths, the sum of the components less the
\* penalty for an extended move
PullbackTotal(c, extended) ==
    100 * (c.location + c.price_action + c.volume + c.volatility + c.momentum
           - (IF extended THEN 100 ELSE 0))
    - (IF <<c.location, c.price_action, c.volume, c.volatility, c.momentum,
            extended>> \in FloatSumShort THEN 1 ELSE 0)

\* mutant: every total from the POTENTIAL threshold on is CONFIRMED
PullbackClassLoose(total) ==
    IF total >= 100 * PotentialThreshold THEN "CONFIRMED" ELSE ""

\* step 9: the class of a total score, "" when no signal is returned
PullbackClass(total) ==
    IF total >= 100 * ConfirmedThreshold THEN "CONFIRMED"
    ELSE IF total >= 100 * PotentialThreshold THEN "POTENTIAL"
    ELSE ""

NoPullback(stage) ==
    [signal |-> "", direction |-> "", score |-> 0, total |-> 0, stage |-> stage]

\* detect_pullback_signal with the default parameters; signal "" stands for
\* the result None, stage says where the call returned, total is total_score
DetectPullbackSignal(prices, highs, lows, closes, volumes, htf_direction, nearest) ==
    IF Len(prices) < PullbackMinBars THEN NoPullback("min_bars")
    ELSE IF ~nearest.some THEN NoPullback("no_level")
    ELSE IF PullbackDirection(nearest, htf_direction) = "" THEN NoPullback("direction")
    ELSE
    LET dir == PullbackDirection(nearest, htf_direction)
        atr == ComputeAtr(highs, lows, closes, AtrPeriod)
        c   == PullbackComponents(dir, highs, lows, closes, volumes, nearest, atr)
        total == PullbackTotal(c, PullbackExtended(closes, atr))
    IN  [signal     |-> PullbackClass(total),
         direction  |-> IF PullbackClass(total) = "" THEN "" ELSE dir,
         score      |-> RoundDiv(total, 100),
         total      |-> total,
         stage      |-> "scored",
         components |-> c,
         extended   |-> PullbackExtended(closes, atr)]

-----------------------------------------------------------------------------
(* final_trade_decision (score x100, components and running sum x10000).   *)
(* sr_location_score lives in strategy/sr_levels.py; its result for        *)
(* (closes[-1], nearest_level, direction) is the input sr, x100.           *)

ExecuteThreshold == 550
PrepareThreshold == 350

\* mutant: every signal class gets the CONFIRMED bonus
StructureScoreFlat(signal_type) == 30000

\* stage 1: the structural score of the signal class
StructureScore(signal_type) == IF signal_type = "CONFIRMED" THEN 30000 ELSE 18000

\* stage 2
HtfScore(direction, htf_bias_direction) ==
    IF direction = "LONG"
    THEN (IF htf_bias_direction = "BULLISH" THEN 15000 ELSE -10000)
    ELSE (IF htf_bias_direction = "BEARISH" THEN 15000 ELSE -10000)

\* stage 3
RegimeScore(market_regime) ==
    CASE market_regime = "TRENDING" -> 14000
      [] market_regime = "EARLY_TREND" -> 10000
      [] market_regime = "COMPRESSION" -> -8000
      [] market_regime = "WEAK" -> -12000
      [] OTHER -> 0

\* stage 4
VwapScore(direction, vwap_ctx) ==
    vwap_ctx.score * 100
    - (IF direction = "LONG" /\ vwap_ctx.acceptance = "BELOW" THEN 8000 ELSE 0)
    - (IF direction = "SHORT" /\ vwap_ctx.acceptance = "ABOVE" THEN 8000 ELSE 0)

\* stage 5
VolumeScore(vol_ctx) ==
    IF vol_ctx.score >= 100 THEN 12000
    ELSE IF vol_ctx.score >= 20 THEN 6000
    ELSE IF vol_ctx.score < 0 THEN -10000
    ELSE 0

\* stage 6
VolatilityScore(volat_ctx) ==
    CASE volat_ctx.state = "EXPANDING" -> 12000
      [] volat_ctx.state = "BUILDING" -> 7000
      [] volat_ctx.state = "CONTRACTING" -> -6000
      [] volat_ctx.state = "EXHAUSTION" -> -10000
      [] OTHER -> 0

\* stage 7
LiquidityScore(liq_ctx) ==
    IF liq_ctx.score >= 100 THEN 10000
    ELSE IF liq_ctx.score >= 0 THEN 5000
    ELSE -12000

\* round(x, 2) of a sum of floats, x in ten-thousandths: where the decimal
\* sum ends in a half hundredth the binary sum lies a rounding error above or
\* below it, and up tells which
RoundHundredths(x, up) ==
    IF x % 100 = 50 THEN (x \div 100) + (IF up THEN 1 ELSE 0) ELSE RoundDiv(x, 100)

\* mutant: the sum is rounded but not clamped
ClampScoreUnclamped(total, up) == RoundHundredths(total, up)

\* stage 10: clamp to [0, 10] and round to two places
ClampScore(total, up) == RoundHundredths(Max2(Min2(total, 100000), 0), up)

\* stage 10: the state for a clamped score
StateFor(score, direction) ==
    IF score >= ExecuteThreshold THEN "EXECUTE_" \o direction
    ELSE IF score >= PrepareThreshold THEN "PREPARE_" \o direction
    ELSE "IGNORE"

\* the direction field of the result (None is "")
DirectionFor(state, direction) == IF state # "IGNORE" THEN direction ELSE ""

\* final_trade_decision, for non-empty closes.  components holds what each
\* stage adds to the score, in ten-thousandths (the code's dict stores the
\* price-action and S/R scores before their weights); sr is the value of
\* sr_location_score and up the direction a half-hundredth tie is rounded to.
FinalTradeDecision(prices, highs, lows, closes, volumes, market_regime, htf_bias_direction, vwap_ctx, pullback_signal, sr, up) ==
    IF ~pullback_signal.some
    THEN [state |-> "IGNORE", score |-> 0, direction |-> "",
          components |-> <<>>, reason |-> "no pullback setup"]
    ELSE
    LET direction == pullback_signal.v.direction
        atr   == ComputeAtr(highs, lows, closes, AtrPeriod)
        move  == IF Len(closes) > 1
                 THEN closes[Len(closes)] - closes[Len(closes) - 1] ELSE 0
        pa    == PriceActionContext(closes, highs, lows, closes, closes)
        comp  == [structure    |-> StructureScore(pullback_signal.v.signal),
                  htf          |-> HtfScore(direction, htf_bias_direction),
                  regime       |-> RegimeScore(market_regime),
                  vwap         |-> VwapScore(direction, vwap_ctx),
                  volume       |-> VolumeScore(AnalyzeVolume(volumes, closes, 12, 3)),
                  volatility   |-> VolatilityScore(AnalyzeVolatility(move, atr)),
                  liquidity    |-> LiquidityScore(
                                      AnalyzeLiquidity(volumes, MinAvgVolume,
                                                       LiquidityLookback)),
                  price_action |-> 13 * pa.score,
                  sr           |-> 110 * sr]
        total == comp.structure + comp.htf + comp.regime + comp.vwap + comp.volume
                 + comp.volatility + comp.liquidity + comp.price_action + comp.sr
        score == ClampScore(total, up)
        state == StateFor(score, direction)
    IN  [state |-> state, score |-> score,
         direction |-> DirectionFor(state, direction),
         components |-> comp,
         reason |-> IF score >= ExecuteThreshold THEN "high quality pullback trade"
                    ELSE IF score >= PrepareThreshold THEN "developing pullback setup"
                    ELSE "insufficient edge"]

-----------------------------------------------------------------------------
(* StrategyEngine.evaluate                                                 *)

MinBars == 30

\* the three ways a call of evaluate ends
NoResult == [kind |-> "none", state |-> "", score |-> 0, direction |-> ""]
Raised == [kind |-> "raised", state |-> "", score |-> 0, direction |-> ""]
Returned(d) ==
    [kind |-> "decision", state |-> d.state, score |-> d.score, direction |-> d.direction]

\* mutant: a veto answers with an IGNORE decision
VetoReturnIgnore(gate) ==
    [kind |-> "decision", state |-> "IGNORE", score |-> 0, direction |-> ""]

\* what evaluate returns at a hard veto
VetoReturn(gate) == NoResult

\* mutant: the MTF gate looks at the direction only
MtfGateIgnoresConflict(mtf_ctx) == mtf_ctx.direction = "NEUTRAL"

\* the hard MTF gate
MtfGateBlocks(mtf_ctx) == mtf_ctx.direction = "NEUTRAL" \/ mtf_ctx.conflict

MtfGateName(mtf_ctx) ==
    IF mtf_ctx.direction = "NEUTRAL" THEN "mtf_neutral" ELSE "mtf_conflict"

\* mutant: only WEAK is filtered
RegimeGateWeakOnly(regime) == regime.state = "WEAK"

\* the market regime filter
RegimeGateBlocks(regime) == regime.state \in {"WEAK", "COMPRESSION"}

\* HTF must not oppose MTF
HtfOpposes(mtf_ctx, htf_bias) ==
    \/ mtf_ctx.direction = "BULLISH" /\ htf_bias.direction = "BEARISH"
    \/ mtf_ctx.direction = "BEARISH" /\ htf_bias.direction = "BULLISH"

\* the detector's direction must align with the MTF direction
Misaligned(breakout, mtf_ctx) ==
    \/ breakout.direction = "LONG" /\ mtf_ctx.direction # "BULLISH"
    \/ breakout.direction = "SHORT" /\ mtf_ctx.direction # "BEARISH"

\* the parameters of final_trade_decision; none has a default
FinalTradeDecisionParams ==
    {"inst_key", "prices", "highs", "lows", "closes", "volumes", "market_regime",
     "htf_bias_direction", "vwap_ctx", "pullback_signal"}

\* the keywords evaluate passes to final_trade_decision
FinalCallKeywords ==
    {"inst_key", "prices", "highs", "lows", "closes", "volumes", "market_regime",
     "htf_bias_label", "vwap_ctx", "breakout_signal"}

\* a call by keywords binds when every keyword names a parameter and every
\* parameter without default is given; otherwise Python raises TypeError
CallBinds(keywords, params) == keywords \subseteq params /\ params \subseteq keywords

\* vwap_calculators[inst_key], created when the key is missing
VwapCalcOf(vw, inst) == IF inst \in DOMAIN vw THEN vw[inst] ELSE NewVwapCalculator(0)

WithCalc(vw, inst, calc) ==
    [i \in DOMAIN vw \cup {inst} |-> IF i = inst THEN calc ELSE vw[i]]

\* the record of one call: how far it got, what it computed on the way, which
\* calls it made on the shared objects (in order) and how it ended
EvalRecord(inst, ltp, gate, result, mtf_ctx, regime, htf, signal, calls) ==
    [inst |-> inst, ltp |-> ltp, gate |-> gate, result |-> result,
     mtf |-> mtf_ctx, regime |-> regime, htf |-> htf, signal |-> signal,
     calls |-> calls]

NoEval ==
    EvalRecord("", 0, "never", NoResult, None, "", "", None, <<>>)


Call(op, a, b) == [op |-> op, a |-> a, b |-> b]

\* what a call of evaluate leaves: the MTF buffers, the calculator map and
\* the record of the call
Outcome(buf, vw, inst, ltp, gate, result, mtf_ctx, regime, htf, signal, calls) ==
    [buffers |-> buf, vwap |-> vw,
     eval |-> EvalRecord(inst, ltp, gate, result, mtf_ctx, regime, htf, signal, calls)]

\* evaluate, step 7: the call of final_trade_decision and the return
EvaluateFinal(all, buf, vw, inst, ltp, sr, mtf_ctx, regime, htf_bias, vwap_ctx, breakout, calls) ==
    LET c3 == calls \o <<Call("final_trade_decision", 0, 0)>>
    IN  IF ~CallBinds(FinalCallKeywords, FinalTradeDecisionParams)
        THEN Outcome(buf, vw, inst, ltp, "final", Raised, Some(mtf_ctx), regime.state,
                     htf_bias.direction, breakout, c3)
        ELSE Outcome(buf, vw, inst, ltp, "final",
                     Returned(FinalTradeDecision(
                                  Field(all, "close"), Field(all, "high"),
                                  Field(all, "low"), Field(all, "close"),
                                  Field(all, "volume"), regime.state, htf_bias.label,
                                  vwap_ctx, breakout, sr.score, sr.up)),
                     Some(mtf_ctx), regime.state, htf_bias.direction, breakout, c3)

\* evaluate, step 6: breakout / intent and its alignment with the MTF direction
EvaluateBreakout(all, buf, vw, inst, ltp, sr, mtf_ctx, regime, htf_bias, vwap_ctx, breakout, calls) ==
    IF ~breakout.some
    THEN Outcome(buf, vw, inst, ltp, "no_signal", VetoReturn("no_signal"),
                 Some(mtf_ctx), regime.state, htf_bias.direction, None, calls)
    ELSE IF Misaligned(breakout.v, mtf_ctx)
    THEN Outcome(buf, vw, inst, ltp, "misaligned", VetoReturn("misaligned"),
                 Some(mtf_ctx), regime.state, htf_bias.direction, breakout, calls)
    ELSE EvaluateFinal(all, buf, vw, inst, ltp, sr, mtf_ctx, regime, htf_bias,
                       vwap_ctx, breakout, calls)

\* evaluate, step 5: the HTF bias must not oppose the MTF direction
EvaluateHtf(all, buf, vw, inst, ltp, sr, mtf_ctx, regime, htf_bias, vwap_ctx, calls) ==
    IF HtfOpposes(mtf_ctx, htf_bias)
    THEN Outcome(buf, vw, inst, ltp, "htf", VetoReturn("htf"), Some(mtf_ctx),
                 regime.state, htf_bias.direction, None, calls)
    ELSE EvaluateBreakout(all, buf, vw, inst, ltp, sr, mtf_ctx, regime, htf_bias,
                          vwap_ctx,
                          BreakoutSignal(Field(all, "close"), Field(all, "volume"),
                                         Field(all, "high"), Field(all, "low"),
                                         Field(all, "close")),
                          calls)

\* evaluate, step 4: the instrument's calculator is created if missing,
\* updated with (ltp, volumes[-1]) and asked for the context
EvaluateVwap(all, buf, vw, inst, ltp, ema, sr, mtf_ctx, regime, calc, calls) ==
    EvaluateHtf(all, buf, WithCalc(vw, inst, calc), inst, ltp, sr, mtf_ctx, regime,
                GetHtfBias(Field(all, "close"), GetVwap(calc), ema),
                VwapGetContext(calc, ltp),
                calls \o <<Call("vwap.update", ltp, all[Len(all)].volume),
                           Call("vwap.get_context", ltp, 0)>>)

\* evaluate, step 3: the market regime filter
EvaluateRegime(all, buf, vw, inst, ltp, ema, sr, mtf_ctx, regime, calls) ==
    IF RegimeGateBlocks(regime)
    THEN Outcome(buf, vw, inst, ltp, "regime", VetoReturn("regime"), Some(mtf_ctx),
                 regime.state, "", None, calls)
    ELSE EvaluateVwap(all, buf, vw, inst, ltp, ema, sr, mtf_ctx, regime,
                      VwapUpdate(VwapCalcOf(vw, inst), Some(ltp), Some(all[Len(all)].volume)),
                      calls)

\* evaluate, the hard MTF gate on the context of the updated buffers
EvaluateMtfGate(all, buf, vw, inst, ltp, ema, sr, mtf_ctx, calls) ==
    IF MtfGateBlocks(mtf_ctx)
    THEN Outcome(buf, vw, inst, ltp, MtfGateName(mtf_ctx), VetoReturn("mtf"),
                 Some(mtf_ctx), "", "", None, calls)
    ELSE EvaluateRegime(all, buf, vw, inst, ltp, ema, sr, mtf_ctx,
                        DetectMarketRegime(Field(all, "high"), Field(all, "low"),
                                           Field(all, "close")),
                        calls)

\* evaluate, step 2: the 15m and 30m candles of the MTF buffers buf, which
\* hold the newest bar already
EvaluateMtf(all, buf, vw, inst, ltp, ema, sr, calls) ==
    EvaluateMtfGate(all, buf, vw, inst, ltp, ema, sr,
                    AnalyzeMtf(GetLatest15m(buf, inst), GetLatest30m(buf, inst),
                               GetTfHistory(buf, inst, 15, 3),
                               GetTfHistory(buf, inst, 30, 3)),
                    calls)

\* evaluate, after the data sufficiency check: the newest bar goes to the MTF
\* builder; all is the instrument's series (get_prices and the like read it).
\* A negative time stands for a timestamp _to_5min_iso cannot parse: update
\* raises ValueError before it touches the buffer
EvaluateBars(all, buf, vw, inst, ltp, ema, sr, bar) ==
    IF bar.time < 0
    THEN Outcome(buf, vw, inst, ltp, "mtf_update", Raised, None, "", "", None,
                 <<Call("mtf.update", bar.time, bar.volume)>>)
    ELSE
    EvaluateMtf(all,
                MtfUpdate(buf, inst, bar.time, bar.open, bar.high, bar.low,
                          bar.close, bar.volume),
                vw, inst, ltp, ema, sr,
                <<Call("mtf.update", bar.time, bar.volume)>>)

\* evaluate(inst_key, ltp) on the bar store b, the MTF buffers buf and the
\* calculator map vw.  ema holds the results of the helper of indicators.py,
\* sr the result of the helper of sr_levels.py and the side of the final
\* rounding.
EvaluateOutcome(b, buf, vw, inst, ltp, ema, sr) ==
    IF ~HasEnoughData(b, inst, MinBars) \/ GetLastNBars(b, inst, max_len) = <<>>
    THEN Outcome(buf, vw, inst, ltp, "insufficient", NoResult, None, "", "", None, <<>>)
    ELSE EvaluateBars(GetLastNBars(b, inst, max_len), buf, vw, inst, ltp, ema, sr,
                      GetLastNBars(b, inst, 1)[1])

\* results of sr_location_score, x100
SrSamples == {0, 100}

\* results of exponential_moving_average for (prices, 14), (prices, 34),
\* (prices[:-5], 14), (prices[:-5], 34), in hundredths
EmaUnavailable == [short |-> None, long |-> None, past_short |-> None, past_long |-> None]

EmaSamples ==
    {EmaUnavailable,
     [short |-> Some(10100), long |-> Some(10000),
      past_short |-> Some(10050), past_long |-> Some(10000)],
     [short |-> Some(10000), long |-> Some(10100),
      past_short |-> Some(10000), past_long |-> Some(10050)]}

\* the call evaluate(inst, ltp) on the bar store b; the
\* helpers are consulted on the paths that call them only
Evaluate(b, inst, ltp) ==
    \E ema \in (IF HasEnoughData(b, inst, HtfLongPeriod + 5)
                THEN EmaSamples ELSE {EmaUnavailable}),
       sr \in (IF CallBinds(FinalCallKeywords, FinalTradeDecisionParams)
               THEN [score : SrSamples, up : BOOLEAN]
               ELSE {[score |-> 0, up |-> FALSE]}) :
        \E out \in {EvaluateOutcome(b, buffers, vwap, inst, ltp, ema, sr)} :
            /\ buffers' = out.buffers
            /\ vwap' = out.vwap
            /\ lastEval' = out.eval

-----------------------------------------------------------------------------
(* Initial values                                                          *)

EmptyMap == [i \in {} |-> <<>>]

NoCall == [called |-> FALSE]
\* the last recorded call was a call of op
Called(op) == "op" \in DOMAIN q /\ q.called /\ q.op = op

StoreInit(caps) ==
    /\ max_len \in caps
    /\ bars = EmptyMap
    /\ bars_closed = 0
    /\ bars_received = 0
    /\ inserted = EmptyMap
    /\ closed = EmptyMap

\* no lock object exists, no close-callback is registered, no call is under way
ThreadInit ==
    /\ locks = EmptyMap
    /\ held = <<>>
    /\ callbacks = <<>>
    /\ threads = [t \in Threads |-> [stack |-> <<>>, calls |-> 0]]

\* market_streamer.py after import: signals_today = {}, no message yet
StreamInit ==
    /\ signals_today = EmptyMap
    /\ entries = <<>>
    /\ today = 1
    /\ messages = 0

EngineInit ==
    /\ buffers = EmptyMap
    /\ vwap = EmptyMap
    /\ lastEval = NoEval
    /\ nReEval = 0

-----------------------------------------------------------------------------
(* The store specification: a scanner of small capacity under any sequence *)
(* of append_ohlc_bar and append_tick calls for two instruments.           *)

\* timestamps of the completed bars handed to append_ohlc_bar
StoreBarTimes == {0, 5}
\* their <<open, high, low, close, volume>>
StoreBarShapes == {<<2, 2, 2, 2, 1>>, <<2, 3, 1, 2, 1>>}
\* time, price and volume of the ticks handed to append_tick
StoreTickTimes == {3, 7}
StoreTickPrices == {1, 3}
StoreTickVolumes == {1}

StoreOps == bars_closed + bars_received

StoreInitial ==
    /\ StoreInit(1..MaxCap)
    /\ EngineInit
    /\ fd = NoCall
    /\ StreamInit
    /\ q = NoCall
    /\ ThreadInit

StoreAppendBar ==
    /\ StoreOps < MaxOps
    /\ \E inst \in Insts, t \in StoreBarTimes, sh \in StoreBarShapes :
          /\ AppendOhlcBar(inst, t, sh[1], sh[2], sh[3], sh[4], sh[5])
          /\ q' = [called |-> TRUE, op |-> "append_ohlc_bar",
                   in |-> [inst |-> inst, time |-> t, shape |-> sh]]
    /\ UNCHANGED <<engineVars, fd, threadVars, streamVars>>

StoreAppendTick ==
    /\ StoreOps < MaxOps
    /\ \E inst \in Insts, t \in StoreTickTimes, p \in StoreTickPrices,
          v \in StoreTickVolumes :
          /\ AppendTick(inst, t, p, v)
          /\ q' = [called |-> TRUE, op |-> "append_tick",
                   in |-> [inst |-> inst, timestamp |-> t, price |-> p, volume |-> v]]
    /\ UNCHANGED <<engineVars, fd, threadVars, streamVars>>

StoreNext == StoreAppendBar \/ StoreAppendTick

SpecStore == StoreInitial /\ [][StoreNext]_vars

-----------------------------------------------------------------------------
(* Claims about the bar store                                              *)

Newest(s, n) == SubSeq(s, Len(s) - n + 1, Len(s))

\* C1: after any sequence of append_ohlc_bar and append_tick calls every
\* instrument's stored series holds at most max_len bars and is exactly the
\* most recent min(max_len, number of bars inserted) inserted bars, in
\* insertion order (an insert into a full series drops the oldest bar only).
C1_BoundedFifo ==
    /\ DOMAIN bars = DOMAIN inserted
    /\ \A i \in DOMAIN bars :
          /\ Len(bars[i]) <= max_len
          /\ bars[i] = Newest(inserted[i], Min2(max_len, Len(inserted[i])))

\* a series of capacity 2 has evicted a bar
C1_Witness ==
    \E i \in DOMAIN bars :
       /\ max_len = 2
       /\ Len(inserted[i]) > max_len
       /\ Len(bars[i]) = max_len
       /\ inserted[i][1] # inserted[i][2]

\* C2: every instrument's stored series has strictly increasing timestamps
\* (so no two stored bars share a timestamp).
C2_StrictlyIncreasingTimes ==
    \A i \in DOMAIN bars :
       \A k \in 1..(Len(bars[i]) - 1) : bars[i][k].time < bars[i][k + 1].time

\* the series of an instrument, empty when the instrument is not registered
SeriesOf(b, inst) == IF inst \in DOMAIN b THEN b[inst] ELSE <<>>

\* C16: a bar inserted with append_ohlc_bar is never changed afterwards: as
\* long as it is stored it is the bar that was inserted.
C16_ClosedBarNeverChanged ==
    \A i \in DOMAIN bars :
       \A j \in 1..Len(bars[i]) :
          LET k == Len(inserted[i]) - Len(bars[i]) + j
          IN  closed[i][k].some => bars[i][j] = closed[i][k].v

\* C18: append_tick rounds the tick's time down to a 5-minute boundary; when
\* the series is empty or its last bar has another time it appends a bar with
\* open = high = low = close = price and the tick's volume; otherwise the
\* number of bars and the last bar's open stay, its high and low become the
\* max and min with the price, its close the price, its volume grows by the
\* tick's volume.  Nothing else of the series changes.
C18_TickAggregation ==
    [][(bars_received' # bars_received) =>
          LET inst == q'.in.inst
              old  == SeriesOf(bars, inst)
              new  == bars'[inst]
              t5   == CHOOSE b \in 0..q'.in.timestamp :
                         b % 5 = 0 /\ b <= q'.in.timestamp /\ q'.in.timestamp < b + 5
              last == new[Len(new)]
          IN  /\ q'.op = "append_tick"
              /\ \A i \in DOMAIN bars \ {inst} : bars'[i] = bars[i]
              /\ IF old = <<>> \/ old[Len(old)].time # t5
                 THEN /\ last = [time |-> t5, open |-> q'.in.price, high |-> q'.in.price,
                                 low |-> q'.in.price, close |-> q'.in.price,
                                 volume |-> q'.in.volume]
                      /\ Len(new) = Min2(Len(old) + 1, max_len)
                      /\ \A j \in 1..(Len(new) - 1) :
                            new[j] = old[Len(old) - (Len(new) - 1) + j]
                 ELSE /\ Len(new) = Len(old)
                      /\ \A j \in 1..(Len(new) - 1) : new[j] = old[j]
                      /\ last.time = t5
                      /\ last.open = old[Len(old)].open
                      /\ last.high = Max2(old[Len(old)].high, q'.in.price)
                      /\ last.low = Min2(old[Len(old)].low, q'.in.price)
                      /\ last.close = q'.in.price
                      /\ last.volume = old[Len(old)].volume + q'.in.volume]_vars

\* a tick at 09:07 was merged into the bar of 09:05 that already stood at the
\* end of a series of two bars, and raised its high
C18_Witness ==
    /\ Called("append_tick") /\ q.in.timestamp = 7
    /\ Len(bars[q.in.inst]) = 2
    /\ Len(inserted[q.in.inst]) = 2
    /\ bars[q.in.inst][2].time = 5
    /\ bars[q.in.inst][2].volume > 1
    /\ bars[q.in.inst][2].high = 3 /\ bars[q.in.inst][2].open = 2

-----------------------------------------------------------------------------
(* The scanner under threads and close-callbacks.  A call into the scanner *)
(* is a frame on the calling thread's stack; a callback that calls back    *)
(* into the scanner pushes a frame on the same stack.  pc is the place the *)
(* call has reached: "lookup" and "missing" inside _lock_for, "acquire" at *)
(* the with statement, "locked" inside it, "counting" between the load and *)
(* the store of self.bars_closed += 1, "snapshot" and "dispatch" in the    *)
(* callback loop of append_ohlc_bar.                                       *)
(*                                                                         *)
(* A close-callback is named by what it does with (inst, bar): "noop"      *)
(* returns, "raise" raises an Exception, "unregister" unregisters the      *)
(* callback "noop", "mutate" writes bar["close"], "read" calls             *)
(* get_last_n_bars(inst, 1), "tick" calls append_tick for inst and the     *)
(* bar's bucket, "bar" calls append_ohlc_bar for inst unless it runs       *)
(* inside such a call already.  A bar is referred to by its position in    *)
(* the history of inserted bars.                                           *)

\* the lists of registered close-callbacks the specifications start from
CallbackLists ==
    {<<>>, <<"raise", "noop">>, <<"unregister", "noop", "raise">>,
     <<"read", "raise", "tick">>, <<"bar", "raise">>, <<"mutate", "raise">>}

Frame(op, inst) ==
    [op |-> op, inst |-> inst, pc |-> "lookup", lock |-> 0, ref |-> 0,
     reg |-> callbacks, snap |-> <<>>, i |-> 1, invoked |-> <<>>, raised |-> 0,
     count |-> 0]

\* the stack after its innermost call returned: the callback that made the
\* call, if any, returns too
Resumed(stack) ==
    LET rest == SubSeq(stack, 1, Len(stack) - 1)
    IN  IF rest = <<>> THEN rest ELSE [rest EXCEPT ![Len(rest)].i = @ + 1]

WithTop(t, f) == [threads EXCEPT ![t].stack = [@ EXCEPT ![Len(@)] = f]]

\* mutant: append_ohlc_bar holds the instrument lock until it returns
LockScopeWholeCall(op) == IF op = "append_ohlc_bar" THEN "call" ELSE "body"

\* the extent of the with self._lock_for(inst) block of an operation
LockScope(op) == "body"

\* mutant: a callback that raises ends the callback loop
InvokedAbort(f, cb, how) ==
    [f EXCEPT !.i = IF how = "raised" THEN Len(f.snap) + 1 ELSE @ + 1,
              !.invoked = Append(@, <<cb, f.inst, f.ref>>),
              !.raised = @ + (IF how = "raised" THEN 1 ELSE 0)]

\* the frame of append_ohlc_bar after cb(inst, bar) returned or raised
Invoked(f, cb, how) ==
    [f EXCEPT !.i = @ + 1,
              !.invoked = Append(@, <<cb, f.inst, f.ref>>),
              !.raised = @ + (IF how = "raised" THEN 1 ELSE 0)]

\* the calls the threads have made so far
CallsMade == threads[1].calls + threads[2].calls

\* a thread calls append_ohlc_bar, append_tick or get_last_n_bars; the
\* appends run _ensure_inst, get_last_n_bars returns [] for an unknown
\* instrument
BeginCall(t) ==
    /\ threads[t].stack = <<>>
    /\ CallsMade < MaxCalls
    /\ \E op \in {"append_ohlc_bar", "append_tick", "get_last_n_bars"}, inst \in Insts :
          IF op = "get_last_n_bars" /\ inst \notin DOMAIN bars
          THEN /\ threads' = [threads EXCEPT ![t].calls = @ + 1]
               /\ UNCHANGED bars
          ELSE /\ threads' = [threads EXCEPT ![t].calls = @ + 1,
                                             ![t].stack = <<Frame(op, inst)>>]
               /\ bars' = IF op = "get_last_n_bars" THEN bars ELSE EnsureInst(bars, inst)
    /\ UNCHANGED <<max_len, bars_closed, bars_received, inserted, closed,
                   locks, held, callbacks, engineVars, streamVars, fd, q>>

\* _lock_for: self._locks[inst] finds the instrument's lock or misses
LockLookup(t) ==
    /\ threads[t].stack # <<>>
    /\ LET f == threads[t].stack[Len(threads[t].stack)]
       IN  /\ f.pc = "lookup"
           /\ threads' = WithTop(t, IF f.inst \in DOMAIN locks
                                    THEN [f EXCEPT !.pc = "acquire", !.lock = locks[f.inst]]
                                    ELSE [f EXCEPT !.pc = "missing"])
    /\ UNCHANGED <<storeVars, locks, held, callbacks, engineVars, streamVars, fd, q>>

\* _lock_for after a miss: defaultdict.__missing__ makes a lock and stores it
\* under the instrument, whatever is stored there by now
LockCreate(t) ==
    /\ threads[t].stack # <<>>
    /\ LET f == threads[t].stack[Len(threads[t].stack)]
           new == Len(held) + 1
       IN  /\ f.pc = "missing"
           /\ held' = Append(held, 0)
           /\ locks' = [i \in DOMAIN locks \cup {f.inst} |->
                           IF i = f.inst THEN new ELSE locks[i]]
           /\ threads' = WithTop(t, [f EXCEPT !.pc = "acquire", !.lock = new])
    /\ UNCHANGED <<storeVars, callbacks, engineVars, streamVars, fd, q>>

\* with <lock>: the thread takes the lock once it is free
Acquire(t) ==
    /\ threads[t].stack # <<>>
    /\ LET f == threads[t].stack[Len(threads[t].stack)]
       IN  /\ f.pc = "acquire"
           /\ held[f.lock] = 0
           /\ held' = [held EXCEPT ![f.lock] = t]
           /\ threads' = WithTop(t, [f EXCEPT !.pc = "locked"])
    /\ UNCHANGED <<storeVars, locks, callbacks, engineVars, streamVars, fd, q>>

\* the body of the with block and, for append_tick and get_last_n_bars, the
\* release of the lock at its end; a bar of 09:05 is appended, a tick of 09:07
\* is aggregated, the last bar is read.  append_ohlc_bar has appended its bar
\* and loaded self.bars_closed, the first half of self.bars_closed += 1
CriticalSection(t) ==
    /\ threads[t].stack # <<>>
    /\ LET f == threads[t].stack[Len(threads[t].stack)]
       IN  /\ f.pc = "locked"
           /\ CASE f.op = "append_ohlc_bar" ->
                     /\ bars' = BarsAppended(bars, f.inst, MkBar(5, 2, 3, 1, 2, 1))
                     /\ inserted' = Recorded(inserted, f.inst, MkBar(5, 2, 3, 1, 2, 1))
                     /\ closed' = Recorded(closed, f.inst, Some(MkBar(5, 2, 3, 1, 2, 1)))
                     /\ threads' = WithTop(t, [f EXCEPT !.pc = "counting",
                                                 !.ref = Len(SeriesOf(inserted, f.inst)) + 1,
                                                 !.count = bars_closed])
                     /\ UNCHANGED <<max_len, bars_closed, bars_received, held>>
                [] f.op = "append_tick" ->
                     /\ AppendTick(f.inst, 7, 3, 1)
                     /\ threads' = [threads EXCEPT ![t].stack = Resumed(@)]
                     /\ held' = [held EXCEPT ![f.lock] = 0]
                [] f.op = "get_last_n_bars" ->
                     /\ threads' = [threads EXCEPT ![t].stack = Resumed(@)]
                     /\ held' = [held EXCEPT ![f.lock] = 0]
                     /\ UNCHANGED storeVars
    /\ UNCHANGED <<locks, callbacks, engineVars, streamVars, fd, q>>

\* the second half of self.bars_closed += 1 in append_ohlc_bar, the store, and
\* the release of the lock at the end of the with block
StoreCount(t) ==
    /\ threads[t].stack # <<>>
    /\ LET f == threads[t].stack[Len(threads[t].stack)]
       IN  /\ f.pc = "counting"
           /\ bars_closed' = f.count + 1
           /\ held' = IF LockScope(f.op) = "body" THEN [held EXCEPT ![f.lock] = 0] ELSE held
           /\ threads' = WithTop(t, [f EXCEPT !.pc = "snapshot"])
    /\ UNCHANGED <<max_len, bars, bars_received, inserted, closed, locks, callbacks,
                   engineVars, streamVars, fd, q>>

\* list(self._on_bar_close_callbacks)
Snapshot(t) ==
    /\ threads[t].stack # <<>>
    /\ LET f == threads[t].stack[Len(threads[t].stack)]
       IN  /\ f.pc = "snapshot"
           /\ threads' = WithTop(t, [f EXCEPT !.pc = "dispatch", !.snap = callbacks])
    /\ UNCHANGED <<storeVars, locks, held, callbacks, engineVars, streamVars, fd, q>>

\* try: cb(inst, bar) except Exception: pass
InvokeCallback(t) ==
    /\ threads[t].stack # <<>>
    /\ LET stack == threads[t].stack
           f     == stack[Len(stack)]
           cb    == f.snap[f.i]
           j     == f.ref - (Len(inserted[f.inst]) - Len(bars[f.inst]))
           calls == cb \in {"read", "tick"} \/ (cb = "bar" /\ Len(stack) = 1)
           callee == Frame(CASE cb = "read" -> "get_last_n_bars"
                             [] cb = "tick" -> "append_tick"
                             [] OTHER -> "append_ohlc_bar", f.inst)
       IN  /\ f.pc = "dispatch"
           /\ f.i <= Len(f.snap)
           /\ threads' =
                 IF calls
                 THEN [threads EXCEPT ![t].stack =
                          Append([stack EXCEPT ![Len(stack)] =
                                     [Invoked(f, cb, "returned") EXCEPT !.i = f.i]],
                                 callee)]
                 ELSE WithTop(t, Invoked(f, cb, IF cb = "raise" THEN "raised" ELSE "returned"))
           /\ callbacks' = IF cb = "unregister"
                           THEN SelectSeq(callbacks, LAMBDA c : c # "noop")
                           ELSE callbacks
           /\ inserted' = IF cb = "mutate"
                          THEN [inserted EXCEPT ![f.inst][f.ref].close = 9]
                          ELSE inserted
           /\ bars' = IF cb = "mutate" /\ j >= 1
                      THEN [bars EXCEPT ![f.inst][j].close = 9]
                      ELSE bars
    /\ UNCHANGED <<max_len, bars_closed, bars_received, closed, locks, held,
                   engineVars, streamVars, fd, q>>

\* return bar
Return(t) ==
    /\ threads[t].stack # <<>>
    /\ LET stack == threads[t].stack
           f     == stack[Len(stack)]
       IN  /\ f.pc = "dispatch"
           /\ f.i > Len(f.snap)
           /\ threads' = [threads EXCEPT ![t].stack = Resumed(@)]
           /\ held' = IF LockScope(f.op) = "call" THEN [held EXCEPT ![f.lock] = 0] ELSE held
           /\ q' = [called |-> TRUE, op |-> f.op,
                    in  |-> [inst |-> f.inst, thread |-> t, depth |-> Len(stack),
                             registered |-> f.reg],
                    out |-> [ref |-> f.ref, invoked |-> f.invoked, raised |-> f.raised,
                             stored |-> f.ref > Len(inserted[f.inst]) - Len(bars[f.inst])]]
    /\ UNCHANGED <<storeVars, locks, callbacks, engineVars, streamVars, fd>>

ThreadStep(t) ==
    \/ BeginCall(t)
    \/ LockLookup(t)
    \/ LockCreate(t)
    \/ Acquire(t)
    \/ CriticalSection(t)
    \/ StoreCount(t)
    \/ Snapshot(t)
    \/ InvokeCallback(t)
    \/ Return(t)

\* a fresh scanner with some close-callbacks registered
ThreadsInitial ==
    /\ StoreInit({MaxCap})
    /\ EngineInit
    /\ fd = NoCall
    /\ StreamInit
    /\ q = NoCall
    /\ locks = EmptyMap
    /\ held = <<>>
    /\ callbacks \in CallbackLists
    /\ threads = [t \in Threads |-> [stack |-> <<>>, calls |-> 0]]

\* one thread drives the scanner
CallbackNext == ThreadStep(1)

SpecCallbacks == ThreadsInitial /\ [][CallbackNext]_vars

\* every thread drives the scanner
ThreadsNext == \E t \in Threads : ThreadStep(t)

SpecThreads == ThreadsInitial /\ [][ThreadsNext]_vars

-----------------------------------------------------------------------------
(* Claims about callbacks and locks                                        *)

\* the innermost call of a thread is at one of the places pcs
TopAt(t, pcs) ==
    /\ threads[t].stack # <<>>
    /\ threads[t].stack[Len(threads[t].stack)].pc \in pcs

Holds(t) == {l \in DOMAIN held : held[l] = t}

\* the threads inside the critical section of an instrument
InCritical(inst) ==
    {t \in Threads : \E k \in DOMAIN threads[t].stack :
        threads[t].stack[k].inst = inst
        /\ threads[t].stack[k].pc \in {"locked", "counting"}}

\* C13: append_ohlc_bar invokes every close-callback registered at the time
\* of the call exactly once, in order, with (instrument, bar), after the bar
\* was inserted; when a callback raises, the bar stays stored, the remaining
\* callbacks are still invoked and the call returns normally.
C13_CallbacksIsolated ==
    /\ Called("append_ohlc_bar") =>
          /\ q.out.ref > 0
          /\ q.out.stored
          /\ Len(q.out.invoked) = Len(q.in.registered)
          /\ \A k \in 1..Len(q.out.invoked) :
                q.out.invoked[k] = <<q.in.registered[k], q.in.inst, q.out.ref>>
    /\ \A t \in Threads : \A k \in DOMAIN threads[t].stack :
          LET f == threads[t].stack[k]
          IN  f.pc = "dispatch" =>
                 /\ f.snap = f.reg
                 /\ f.ref > 0 /\ f.ref <= Len(inserted[f.inst])
                 /\ Len(f.invoked) \in {f.i - 1, f.i}

\* a call returned after its first callback raised and the later ones ran
C13_Witness ==
    /\ Called("append_ohlc_bar")
    /\ q.out.raised = 1
    /\ Len(q.out.invoked) = 3
    /\ q.out.invoked[2][1] = "raise"
    /\ q.out.invoked[3][1] = "tick"
    /\ q.out.stored

\* C14: no instrument lock is held while a close-callback runs, so a callback
\* that calls a read accessor, append_tick or append_ohlc_bar for the same
\* instrument is never left waiting for a lock its own thread holds.
C14_NoLockDuringCallbacks ==
    \A t \in Threads :
       /\ TopAt(t, {"snapshot", "dispatch"}) => Holds(t) = {}
       /\ TopAt(t, {"lookup", "missing", "acquire"}) => Holds(t) = {}

\* callbacks that read the store and aggregated a tick for the bar's
\* instrument have returned, and so has the call that invoked them
C14_Witness ==
    /\ Called("append_ohlc_bar")
    /\ q.in.depth = 1
    /\ Len(q.out.invoked) = 3
    /\ q.out.invoked[1][1] = "read"
    /\ q.out.invoked[3][1] = "tick"
    /\ bars_received = 1
    /\ threads[q.in.thread].stack = <<>>

\* C15: at most one thread is inside the critical section of an instrument,
\* and all calls for an instrument use the same lock object.
C15_MutualExclusion ==
    \A inst \in Insts :
       /\ Cardinality(InCritical(inst)) <= 1
       /\ \A t, u \in Threads :
             \A k \in DOMAIN threads[t].stack, m \in DOMAIN threads[u].stack :
                LET f == threads[t].stack[k]
                    g == threads[u].stack[m]
                IN  (f.inst = inst /\ g.inst = inst /\ f.lock # 0 /\ g.lock # 0)
                       => f.lock = g.lock

\* the number of bars append_ohlc_bar has appended for an instrument
ClosedCount(inst) ==
    Cardinality({k \in DOMAIN SeriesOf(closed, inst) : closed[inst][k].some})

\* no call is under way
Quiescent == \A t \in Threads : threads[t].stack = <<>>

\* C30: after any interleaving of concurrent append_ohlc_bar calls on different
\* instruments from different threads, bars_closed equals the number of
\* completed append_ohlc_bar calls.
C30_NoLostIncrement ==
    (Quiescent /\ \A inst \in Insts : ClosedCount(inst) <= 1)
       => bars_closed = ClosedCount("A") + ClosedCount("B")

-----------------------------------------------------------------------------
(* The accessor specification: a scanner and an MTF builder are fed the    *)
(* bars of one instrument, as on_message feeds them; between the bars      *)
(* get_last_n_bars, get_latest_tf and get_tf_history are called for that   *)
(* instrument and for one never seen.  Prices are in half points.          *)

\* target periods in minutes: below the 5-minute base period, the base
\* period and multiples of it
AccessorPeriods == {3, 5, 10, 15}

\* the n-th bar of the feed: a ramp (the third to fifth open at 12, 13, 14
\* points) or a wide bar
AccessorBars(n) ==
    {MkBar(5 * (n - 1), 18 + 2 * n, 20 + 2 * n, 16 + 2 * n, 19 + 2 * n, 100),
     MkBar(5 * (n - 1), 18 + 2 * n, 40, 10, 19, 50)}

AccessorInitial ==
    /\ StoreInit({MaxCap + 2})
    /\ EngineInit
    /\ fd = NoCall
    /\ StreamInit
    /\ q = NoCall
    /\ ThreadInit

\* on_message: a completed bar goes to the scanner and to the MTF builder
AccessorFeed ==
    /\ Len(SeriesOf(inserted, MainInst)) < MaxAccessorBars
    /\ \E bar \in AccessorBars(Len(SeriesOf(inserted, MainInst)) + 1) :
          /\ AppendOhlcBar(MainInst, bar.time, bar.open, bar.high, bar.low, bar.close,
                           bar.volume)
          /\ buffers' = MtfUpdate(buffers, MainInst, bar.time, bar.open, bar.high, bar.low,
                                  bar.close, bar.volume)
    /\ UNCHANGED <<vwap, lastEval, nReEval, callVars>>

\* the call get_last_n_bars(inst, n)
CallGetLastNBars ==
    /\ UNCHANGED <<storeVars, engineVars, fd, threadVars, streamVars>>
    /\ \E inst \in Insts, n \in 0..(MaxAccessorBars + 1) :
          q' = [called |-> TRUE, op |-> "get_last_n_bars",
                in  |-> [inst |-> inst, n |-> n, known |-> inst \in DOMAIN bars,
                         series |-> SeriesOf(bars, inst)],
                out |-> GetLastNBars(bars, inst, n),
                registered |-> inst \in DOMAIN bars']

\* the in-record of a read and whether the previous recorded call was the same
\* read of the same buffer contents
SameCall(op, in) == Called(op) /\ q.in = in

\* a get_latest_tf that indexed the defaultdict, self.buffers[inst_key]
CallGetLatestTfIndexing ==
    /\ \E inst \in Insts, minutes \in AccessorPeriods :
          LET in == [inst |-> inst, minutes |-> minutes,
                     series |-> BufferOf(buffers, inst)]
          IN  /\ q' = [called |-> TRUE, op |-> "get_latest_tf", in |-> in,
                       out |-> GetLatestTf(buffers, inst, minutes),
                       again |-> SameCall("get_latest_tf", in)]
              /\ buffers' = IF inst \in DOMAIN buffers THEN buffers
                            ELSE [i \in DOMAIN buffers \cup {inst} |->
                                    IF i = inst THEN <<>> ELSE buffers[i]]
    /\ UNCHANGED <<storeVars, vwap, lastEval, nReEval, fd, threadVars, streamVars>>

\* the call get_latest_tf(inst, minutes)
CallGetLatestTf ==
    /\ \E inst \in Insts, minutes \in AccessorPeriods :
          LET in == [inst |-> inst, minutes |-> minutes,
                     series |-> BufferOf(buffers, inst)]
          IN  /\ q' = [called |-> TRUE, op |-> "get_latest_tf", in |-> in,
                       out |-> GetLatestTf(buffers, inst, minutes),
                       again |-> SameCall("get_latest_tf", in)]
              /\ buffers' = buffers
    /\ UNCHANGED <<storeVars, vwap, lastEval, nReEval, fd, threadVars, streamVars>>

\* the call get_tf_history(inst, minutes, lookback)
CallGetTfHistory ==
    /\ \E inst \in Insts, minutes \in AccessorPeriods, lookback \in 0..MaxLookback :
          LET in == [inst |-> inst, minutes |-> minutes, lookback |-> lookback,
                     series |-> BufferOf(buffers, inst)]
          IN  q' = [called |-> TRUE, op |-> "get_tf_history", in |-> in,
                    out |-> IF GetTfHistoryRaises(buffers, inst, minutes, lookback)
                            THEN [kind |-> "raised", v |-> <<>>]
                            ELSE [kind |-> "returned",
                                  v |-> GetTfHistory(buffers, inst, minutes, lookback)],
                    again |-> SameCall("get_tf_history", in)]
    /\ UNCHANGED <<storeVars, engineVars, fd, threadVars, streamVars>>

AccessorNext == AccessorFeed \/ CallGetLastNBars \/ CallGetLatestTf \/ CallGetTfHistory

SpecAccessor == AccessorInitial /\ [][AccessorNext]_vars

-----------------------------------------------------------------------------
(* Claims about the accessors                                              *)

\* bs is a non-empty block of bars and candle is its fold
IsFoldOf(candle, bs) ==
    /\ bs # <<>>
    /\ candle.open = bs[1].open
    /\ candle.close = bs[Len(bs)].close
    /\ \A k \in DOMAIN bs : candle.high >= bs[k].high /\ candle.low <= bs[k].low
    /\ \E k \in DOMAIN bs : candle.high = bs[k].high
    /\ \E k \in DOMAIN bs : candle.low = bs[k].low
    /\ candle.volume = SumSeq([k \in DOMAIN bs |-> bs[k].volume])

\* C17: get_last_n_bars(inst, n) returns, for every n >= 0, exactly the most
\* recent min(n, stored count) bars in insertion order; for an instrument
\* never seen it returns an empty list and does not register the instrument.
C17_LastNBars ==
    Called("get_last_n_bars") =>
       /\ q.out = Newest(q.in.series, Min2(q.in.n, Len(q.in.series)))
       /\ ~q.in.known => (q.out = <<>> /\ ~q.registered)

\* C19: get_latest_tf(inst, minutes) with k = minutes / 5 returns nothing when
\* fewer than k bars are buffered, and otherwise the fold of exactly the k most
\* recent buffered bars, for every period, also one below the base period.
C19_LatestTfFoldsKBars ==
    Called("get_latest_tf") =>
       LET bs == q.in.series
           k  == q.in.minutes \div 5
       IN  IF Len(bs) < k THEN ~q.out.some
           ELSE IF k = 0 THEN ~q.out.some
           ELSE /\ q.out.some
                /\ IsFoldOf(q.out.v, Newest(bs, k))
                /\ q.out.v.time_start = Newest(bs, k)[1].time
                /\ q.out.v.time_end = bs[Len(bs)].time

\* C20: get_tf_history(inst, minutes, lookback) returns at most lookback
\* aggregates, oldest first, each folded from exactly k = minutes / 5 buffered
\* bars; the blocks are consecutive and do not overlap, the newest ends at the
\* newest buffered bar, and only a block that would start before the first
\* buffered bar is omitted.
C20_HistoryBlocks ==
    Called("get_tf_history") =>
       LET bs == q.in.series
           k  == q.in.minutes \div 5
           m  == Len(q.out.v)
       IN  /\ q.out.kind = "returned"
           /\ m <= q.in.lookback
           /\ k >= 1 =>
                 /\ m = Min2(q.in.lookback, Len(bs) \div k)
                 /\ \A j \in 1..m :
                       IsFoldOf(q.out.v[j],
                                SubSeq(bs, Len(bs) - (m - j + 1) * k + 1,
                                       Len(bs) - (m - j) * k))

\* a step that is a call of one of the two MTF reads
MtfReadStep == q'.called /\ q'.op \in {"get_latest_tf", "get_tf_history"} /\ q' # q

-----------------------------------------------------------------------------
(* The engine specification: the objects market_streamer.py constructs,   *)
(* fed with completed 5-minute bars as on_message does (append_ohlc_bar,  *)
(* then evaluate), and direct calls of evaluate.  The feed of the main    *)
(* instrument is quiet, moves for a few bars, is quiet again and moves    *)
(* once more.                                                              *)

\* MarketScanner(max_len=600)
ScannerMaxLen == 600

BasePrice == 100
QuietVolume == 10
LiveShapes == {"dead", "up", "gapdown", "fade"}
LateShapes == {"up"}

\* <<open, high, low, close, volume>> of a bar of the shape after close pc
ShapeBar(shape, pc) ==
    CASE shape = "quiet"   -> <<pc, pc, pc, pc, QuietVolume>>
      [] shape = "dead"    -> <<pc, pc, pc, pc, 0>>
      [] shape = "up"      -> <<pc, pc + 1, pc, pc + 1, QuietVolume>>
      [] shape = "fade"    -> <<pc + 4, pc + 4, pc + 1, pc + 1, QuietVolume>>
      [] shape = "gapdown" -> <<pc - 4, pc - 3, pc - 4, pc - 3, 3 * QuietVolume>>

\* number of bars the feed has delivered for the instrument
Fed(inst) == IF inst \in DOMAIN inserted THEN Len(inserted[inst]) ELSE 0

LastClose(inst) ==
    IF Fed(inst) = 0 THEN BasePrice ELSE inserted[inst][Fed(inst)].close

\* the feed's timestamp of its n-th bar: not always on the 5-minute boundary
FeedTime(n) == 5 * (n - 1) + (n % 2)

EngineInitial ==
    /\ StoreInit({ScannerMaxLen})
    /\ buffers = EmptyMap
    /\ vwap \in {EmptyMap, [i \in Insts |-> NewVwapCalculator(0)]}
    /\ lastEval = NoEval
    /\ nReEval = 0
    /\ fd = NoCall
    /\ StreamInit
    /\ q = NoCall
    /\ ThreadInit

\* the last traded price that comes with a bar of the shape closing at c
ShapeLtps(shape, c) == IF shape = "up" THEN {c, c + 1} ELSE {c}

\* on_message for a feed entry of one instrument that carries an OHLC bar
OnFeedBar(inst) ==
    LET n == Fed(inst) + 1
    IN  /\ nReEval = 0
        /\ n <= MaxFeed
        /\ \E shape \in (IF n > WarmupBars /\ n <= LiveUntil THEN LiveShapes
                         ELSE IF n = LateBar THEN LateShapes ELSE {"quiet"}) :
              LET sb == ShapeBar(shape, LastClose(inst))
              IN  /\ AppendOhlcBar(inst, FeedTime(n), sb[1], sb[2], sb[3], sb[4], sb[5])
                  /\ \E ltp \in ShapeLtps(shape, sb[4]) :
                        Evaluate(BarsAppended(bars, inst,
                                              MkBar(FeedTime(n), sb[1], sb[2], sb[3],
                                                    sb[4], sb[5])),
                                 inst, ltp)
        /\ UNCHANGED <<nReEval, callVars>>

\* a call of evaluate without a new bar, once the feed has stopped
ReEvaluate(inst) ==
    /\ nReEval < MaxReEvals
    /\ nReEval' = nReEval + 1
    /\ UNCHANGED <<storeVars, callVars>>
    /\ Evaluate(bars, inst, LastClose(inst))

EngineNext ==
    \/ OnFeedBar(MainInst)
    \/ \E inst \in Insts : ReEvaluate(inst)

SpecEngine == EngineInitial /\ [][EngineNext]_vars

-----------------------------------------------------------------------------
(* Claims about StrategyEngine.evaluate.  lastEval describes the most       *)
(* recent call; no step after it has touched the bar store.                *)

Evaluated == lastEval.inst \in Insts
EvalEnough == Evaluated /\ lastEval.inst \in DOMAIN bars /\ Len(bars[lastEval.inst]) >= 30
CallsOf(op) == {k \in DOMAIN lastEval.calls : lastEval.calls[k].op = op}
VetoGates == {"mtf_neutral", "mtf_conflict", "regime", "htf", "no_signal", "misaligned"}

\* a step that holds a call of evaluate, and one that is a direct call
EvalStep == lastEval'.inst \in Insts /\ (nReEval' # nReEval \/ bars_closed' # bars_closed)
DirectCall == nReEval' # nReEval

\* C3: when the MTF context computed in an evaluation is NEUTRAL or in
\* conflict, the evaluation ends at the MTF gate: no later stage runs,
\* final_trade_decision is not called and nothing is returned, so no
\* EXECUTE_LONG or EXECUTE_SHORT decision comes out of it.
C3_NoExecuteUnlessMtfClear ==
    (Evaluated /\ lastEval.mtf.some
       /\ (lastEval.mtf.v.direction = "NEUTRAL" \/ lastEval.mtf.v.conflict))
    => /\ lastEval.result.state \notin {"EXECUTE_LONG", "EXECUTE_SHORT"}
       /\ lastEval.result.kind = "none"
       /\ lastEval.regime = ""
       /\ CallsOf("vwap.update") = {}
       /\ CallsOf("final_trade_decision") = {}

\* an evaluation whose 15m and 30m candles disagree although the damped
\* score still names a direction
C3_Witness ==
    /\ Evaluated /\ lastEval.mtf.some
    /\ lastEval.mtf.v.conflict /\ lastEval.mtf.v.direction # "NEUTRAL"
    /\ lastEval.result.kind = "none"

\* C4: evaluate is total: every call ends by returning no result or a
\* DecisionResult and never raises, the path through every gate included.
C4_EvaluateTotal ==
    Evaluated => lastEval.result.kind \in {"none", "decision"}

\* C5 as stated: with at least 30 bars evaluate always returns a
\* DecisionResult, and every hard veto yields state IGNORE.
C5_VetoYieldsIgnore ==
    EvalEnough =>
       /\ lastEval.result.kind = "decision"
       /\ lastEval.gate \in VetoGates => lastEval.result.state = "IGNORE"

\* C5 amended: with at least 30 bars every hard veto (MTF neutral or
\* conflict, regime WEAK/COMPRESSION, HTF opposing MTF, no detector signal,
\* detector direction not aligned) makes evaluate return no result, as data
\* insufficiency does; no veto yields a DecisionResult.
C5_VetoYieldsNoResult ==
    (EvalEnough /\ lastEval.gate \in VetoGates) =>
       /\ lastEval.result.kind = "none"
       /\ lastEval.result.state # "IGNORE"
       /\ CallsOf("final_trade_decision") = {}

\* an evaluation vetoed because the detector's direction is not the MTF
\* direction, the last of the vetoes
C5_Witness ==
    /\ EvalEnough
    /\ lastEval.gate = "misaligned"
    /\ lastEval.signal.some /\ lastEval.signal.v.direction = "LONG"
    /\ lastEval.mtf.v.direction = "BEARISH"
    /\ lastEval.result.kind = "none"

\* C6: a call of evaluate for an instrument with fewer than 30 bars in the
\* bar store returns no decision and leaves the bar store, the MTF buffers and
\* the calculator map with its calculators as they were.
C6_InsufficientNoEffect ==
    [][(EvalStep /\ ~(lastEval'.inst \in DOMAIN bars'
                      /\ Len(bars'[lastEval'.inst]) >= 30))
       => /\ lastEval'.result.kind = "none"
          /\ buffers' = buffers
          /\ vwap' = vwap
          /\ DirectCall => bars' = bars]_vars

\* a direct call for an instrument that has 29 bars and no calculator
C6_Witness ==
    /\ Evaluated /\ nReEval > 0
    /\ lastEval.inst \in DOMAIN bars /\ Len(bars[lastEval.inst]) = 29
    /\ lastEval.result.kind = "none"
    /\ buffers = EmptyMap
    /\ vwap = EmptyMap

NewestNormalized(inst) ==
    LET bar == bars'[inst][Len(bars'[inst])]
    IN  [bar EXCEPT !.time = (bar.time \div 5) * 5]

C8_VwapUpdatedOnce ==
    EvalEnough =>
       /\ Cardinality(CallsOf("vwap.update")) = 1
       /\ \A k \in CallsOf("vwap.update") :
             /\ lastEval.calls[k].a = lastEval.ltp
             /\ lastEval.calls[k].b = bars[lastEval.inst][Len(bars[lastEval.inst])].volume
             /\ \A m \in CallsOf("vwap.get_context") : k < m

\* C11: an evaluation whose detected market regime is WEAK or COMPRESSION
\* ends at the regime filter: nothing is returned, final_trade_decision is not
\* called, so no PREPARE or EXECUTE decision comes out of it.
C11_NoTradeInWeakRegime ==
    (Evaluated /\ lastEval.regime \in {"WEAK", "COMPRESSION"})
    => /\ lastEval.result.state \notin {"PREPARE_LONG", "PREPARE_SHORT",
                                        "EXECUTE_LONG", "EXECUTE_SHORT"}
       /\ lastEval.result.kind = "none"
       /\ lastEval.gate = "regime"
       /\ CallsOf("final_trade_decision") = {}

\* an evaluation that passed the MTF gate in a COMPRESSION regime
C11_Witness ==
    /\ Evaluated /\ lastEval.mtf.some
    /\ lastEval.mtf.v.direction # "NEUTRAL" /\ ~lastEval.mtf.v.conflict
    /\ lastEval.regime = "COMPRESSION"
    /\ lastEval.result.kind = "none"

\* C28: every bar appended to the bar store is appended to the MTF buffer of
\* its instrument exactly once and in the same order: the MTF buffer mirrors
\* the store's series, bar for bar, the time rounded down to the 5-minute
\* boundary.
C28_MtfMirrorsStore ==
    \A inst \in Insts :
       LET stored   == SeriesOf(bars, inst)
           buffered == BufferOf(buffers, inst)
       IN  /\ Len(buffered) = Len(stored)
           /\ \A k \in DOMAIN stored :
                 buffered[k] = [stored[k] EXCEPT !.time = To5MinIso(stored[k].time)]

-----------------------------------------------------------------------------
(* The detector specification: breakout_signal and detect_pullback_signal  *)
(* as pure functions.  The initial states draw the arguments; each action  *)
(* calls one detector with them.                                           *)

\* the directions of the higher-timeframe bias
DecisionBiases == {"BULLISH", "BEARISH", "NEUTRAL"}

\* the nearest level get_nearest_sr hands to detect_pullback_signal
NearestSamples ==
    {None, Some([type |-> "support", dist_pct |-> 0]),
     Some([type |-> "support", dist_pct |-> 275]),
     Some([type |-> "resistance", dist_pct |-> 0])}

\* the bar series: n bars that open at the previous close; the closes are
\* 1000 up to the last three, which close t3, t2 and t1 off 1000; every bar
\* reaches r beyond its open and close, the last one w further down; every
\* volume is 100, the last one vlast
DetectorSeries ==
    [n : {DetectorBars - 6, DetectorBars}, t3 : {-2, 0, 2}, t2 : {-2, 0, 2},
     t1 : {-4, -2, 0, 2, 4}, r : {0, 1}, w : {0, 3}, vlast : {0, 100, 400}]

DetectorBarsOf(ser) ==
    LET closes == [k \in 1..ser.n |-> 1000 + (IF k = ser.n THEN ser.t1
                                              ELSE IF k = ser.n - 1 THEN ser.t2
                                              ELSE IF k = ser.n - 2 THEN ser.t3 ELSE 0)]
        opens  == [k \in 1..ser.n |-> IF k = 1 THEN 1000 ELSE closes[k - 1]]
    IN  [closes  |-> closes,
         highs   |-> [k \in 1..ser.n |-> Max2(opens[k], closes[k]) + ser.r],
         lows    |-> [k \in 1..ser.n |-> Min2(opens[k], closes[k]) - ser.r
                                         - (IF k = ser.n THEN ser.w ELSE 0)],
         volumes |-> [k \in 1..ser.n |-> IF k = ser.n THEN ser.vlast ELSE 100]]

DetectorInitial ==
    /\ StoreInit({MaxCap})
    /\ EngineInit
    /\ fd = NoCall
    /\ StreamInit
    /\ ThreadInit
    /\ \E ser \in DetectorSeries, htf \in DecisionBiases, nearest \in NearestSamples :
          q = [called |-> FALSE, op |-> "",
               in |-> [series |-> ser, htf |-> htf, nearest |-> nearest]]

\* the call breakout_signal(inst_key, prices, volumes, highs, lows, closes)
DetectBreakout ==
    /\ ~q.called
    /\ q' = [called |-> TRUE, op |-> "breakout_signal", in |-> q.in,
             out |-> BreakoutSignal(DetectorBarsOf(q.in.series).closes,
                                    DetectorBarsOf(q.in.series).volumes,
                                    DetectorBarsOf(q.in.series).highs,
                                    DetectorBarsOf(q.in.series).lows,
                                    DetectorBarsOf(q.in.series).closes)]
    /\ UNCHANGED <<storeVars, engineVars, fd, threadVars, streamVars>>

\* the call detect_pullback_signal(prices, highs, lows, closes, volumes, htf_direction)
DetectPullback ==
    /\ ~q.called
    /\ q' = [called |-> TRUE, op |-> "detect_pullback_signal", in |-> q.in,
             out |-> DetectPullbackSignal(DetectorBarsOf(q.in.series).closes,
                                          DetectorBarsOf(q.in.series).highs,
                                          DetectorBarsOf(q.in.series).lows,
                                          DetectorBarsOf(q.in.series).closes,
                                          DetectorBarsOf(q.in.series).volumes,
                                          q.in.htf, q.in.nearest)]
    /\ UNCHANGED <<storeVars, engineVars, fd, threadVars, streamVars>>

DetectorNext == DetectBreakout \/ DetectPullback

SpecDetector == DetectorInitial /\ [][DetectorNext]_vars

-----------------------------------------------------------------------------
(* Claims about the detectors                                              *)

\* the last price is outside the range of the 20 closes before it
RangeBreached(prices) ==
    LET base == SliceFromEnd(prices, 21, 1)
    IN  prices[Len(prices)] > MaxSeq(base) \/ prices[Len(prices)] < MinSeq(base)

\* the last price move is at least ATR x 1
MoveAtLeastAtr(ser) ==
    LET prices == DetectorBarsOf(ser).closes
        atr    == ComputeAtr(DetectorBarsOf(ser).highs, DetectorBarsOf(ser).lows, prices, 14)
    IN  atr.some /\ Abs(prices[ser.n] - prices[ser.n - 1]) * 14 >= atr.v

\* the volume spike check passed
SpikePassed(ser) ==
    ser.n >= 20 /\ AnalyzeVolume(DetectorBarsOf(ser).volumes, <<>>, 20, 4).score > 50

\* C12: breakout_signal returns CONFIRMED only if the last price move is at
\* least the ATR or the volume spike check passed; a range breach without
\* either is POTENTIAL and no breach gives no signal.  detect_pullback_signal
\* returns CONFIRMED only if its total score after the extension penalty is
\* >= 4.2, POTENTIAL only if 2.8 <= total < 4.2, and no signal below 2.8.
C12_ConfirmedOnlyWhenConfirmed ==
    /\ Called("breakout_signal") =>
          LET ser == q.in.series
              ok  == MoveAtLeastAtr(ser) \/ SpikePassed(ser)
          IN  /\ (q.out.some /\ q.out.v.signal = "CONFIRMED") => ok
              /\ (ser.n >= 25 /\ RangeBreached(DetectorBarsOf(ser).closes) /\ ~ok)
                    => (q.out.some /\ q.out.v.signal = "POTENTIAL")
              /\ (ser.n >= 25 /\ ~RangeBreached(DetectorBarsOf(ser).closes)) => ~q.out.some
    /\ Called("detect_pullback_signal") =>
          /\ q.out.signal = "CONFIRMED" => q.out.total >= 42000
          /\ q.out.signal = "POTENTIAL" => (q.out.total >= 28000 /\ q.out.total < 42000)
          /\ (q.out.stage = "scored" /\ q.out.total < 28000) => q.out.signal = ""

\* a pullback at a support, scored 4.2 or more and CONFIRMED although the last
\* six bars moved more than two ATRs and cost it the extension penalty
C12_Witness ==
    /\ Called("detect_pullback_signal")
    /\ q.out.signal = "CONFIRMED" /\ q.out.direction = "LONG"
    /\ q.out.extended

-----------------------------------------------------------------------------
(* The decision specification: final_trade_decision as a pure function.    *)
(* The initial states draw its arguments; the one action calls it.         *)

\* length of the price and volume lists handed to final_trade_decision
DecisionBars == 16

DecisionSignals ==
    {None} \cup {Some([direction |-> d, signal |-> c]) :
                    d \in {"LONG", "SHORT"}, c \in {"POTENTIAL", "CONFIRMED"}}
DecisionRegimes == {"WEAK", "COMPRESSION", "EARLY_TREND", "TRENDING", "EXHAUSTION"}
\* the (score, acceptance) pairs VWAPCalculator.get_context produces
DecisionVwapContexts ==
    {[score |-> 120, acceptance |-> "ABOVE"], [score |-> -120, acceptance |-> "BELOW"],
     [score |-> 0, acceptance |-> "NEAR"], [score |-> -30, acceptance |-> "ABOVE"],
     [score |-> -30, acceptance |-> "BELOW"]}
\* the bar series: n bars at price base with half-range r, the last one
\* closing d above base; every volume is vbase, the last one vlast
DecisionSeries ==
    [n : {2, DecisionBars}, base : {100, 2000}, d : {-1, 0, 2, 3}, r : {0, 1},
     vbase : {0, 1000000}, vlast : {0, 1000000, 2000000}]

DecisionBarsOf(ser) ==
    [closes  |-> [k \in 1..ser.n |-> IF k = ser.n THEN ser.base + ser.d ELSE ser.base],
     highs   |-> [k \in 1..ser.n |->
                     (IF k = ser.n THEN Max2(ser.base, ser.base + ser.d) ELSE ser.base)
                     + ser.r],
     lows    |-> [k \in 1..ser.n |->
                     (IF k = ser.n THEN Min2(ser.base, ser.base + ser.d) ELSE ser.base)
                     - ser.r],
     volumes |-> [k \in 1..ser.n |-> IF k = ser.n THEN ser.vlast ELSE ser.vbase]]

DecisionInitial ==
    /\ StoreInit({MaxCap})
    /\ EngineInit
    /\ q = NoCall
    /\ ThreadInit
    /\ StreamInit
    /\ \E sig \in DecisionSignals, htf \in DecisionBiases, reg \in DecisionRegimes,
          vc \in DecisionVwapContexts, sr \in SrSamples, ser \in DecisionSeries :
          fd = [called |-> FALSE,
                in |-> [signal |-> sig, htf |-> htf, regime |-> reg, vwap_ctx |-> vc,
                        sr |-> sr, series |-> ser]]

\* the call final_trade_decision(...) with the drawn arguments
Decide ==
    /\ ~fd.called
    /\ \E up \in BOOLEAN :
       fd' = [called |-> TRUE,
              in |-> fd.in,
              out |-> FinalTradeDecision(
                          DecisionBarsOf(fd.in.series).closes, DecisionBarsOf(fd.in.series).highs,
                          DecisionBarsOf(fd.in.series).lows, DecisionBarsOf(fd.in.series).closes,
                          DecisionBarsOf(fd.in.series).volumes, fd.in.regime, fd.in.htf,
                          fd.in.vwap_ctx, fd.in.signal, fd.in.sr, up)]
    /\ UNCHANGED <<storeVars, engineVars, q, threadVars, streamVars>>

DecisionNext == Decide

SpecDecision == DecisionInitial /\ [][DecisionNext]_vars

-----------------------------------------------------------------------------
(* Claims about final_trade_decision                                       *)

FdReturned == "called" \in DOMAIN fd /\ fd.called
FdPotential == FdReturned /\ fd.in.signal.some /\ fd.in.signal.v.signal = "POTENTIAL"
FdComponentSum ==
    LET c == fd.out.components
    IN  c.structure + c.htf + c.regime + c.vwap + c.volume + c.volatility
        + c.liquidity + c.price_action + c.sr

\* C9 as stated: a POTENTIAL signal returns PREPARE_<direction> whatever the
\* other inputs are, never EXECUTE.
C9_PotentialShortCircuits ==
    FdPotential => fd.out.state = "PREPARE_" \o fd.in.signal.v.direction

\* C9 amended: a POTENTIAL signal is not short-circuited: it contributes the
\* fixed structural score 1.8 and the remaining stages are scored as for
\* CONFIRMED; the returned score is the sum of all stage contributions
\* clamped to [0, 10] (to the rounding of two places).
C9_PotentialIsScored ==
    FdPotential =>
       /\ fd.out.components.structure = 18000
       /\ FdComponentSum >= 100000 => fd.out.score = 1000
       /\ FdComponentSum <= 0 => fd.out.score = 0
       /\ FdComponentSum \in 0..100000 => Abs(100 * fd.out.score - FdComponentSum) <= 50

\* a POTENTIAL signal ends in EXECUTE
C9_Witness ==
    /\ FdPotential
    /\ fd.out.state = "EXECUTE_" \o fd.in.signal.v.direction

\* C10: the returned score is in [0, 10]; the state is EXECUTE_<direction>
\* exactly for score >= 5.5, PREPARE_<direction> exactly for 3.5 <= score < 5.5
\* and IGNORE otherwise; the direction field is empty exactly for IGNORE and
\* is the signal's direction otherwise.
C10_ScoreStateDirection ==
    FdReturned =>
       LET out == fd.out
           sig == fd.in.signal
       IN  /\ out.score \in 0..1000
           /\ out.score >= 550 => sig.some /\ out.state = "EXECUTE_" \o sig.v.direction
           /\ out.score >= 350 /\ out.score < 550
                 => sig.some /\ out.state = "PREPARE_" \o sig.v.direction
           /\ out.score < 350 => out.state = "IGNORE"
           /\ (out.state = "IGNORE") <=> (out.direction = "")
           /\ out.state # "IGNORE" => sig.some /\ out.direction = sig.v.direction

\* a sum above 10 was clamped to 10 and gives EXECUTE; the direction is attached
C10_Witness ==
    /\ FdReturned /\ fd.in.signal.some
    /\ FdComponentSum > 100000
    /\ fd.out.score = 1000
    /\ fd.out.state = "EXECUTE_SHORT"
    /\ fd.out.direction = "SHORT"

-----------------------------------------------------------------------------
(* The VWAP specification: one VWAPCalculator, constructed without or with  *)
(* a rolling window, under any sequence of update, get_vwap and get_context *)
(* calls.  Prices and volumes are present or missing (None).                *)

\* the calculator lives in vwap[MainInst]
VwapInitial ==
    /\ StoreInit({MaxCap})
    /\ buffers = EmptyMap /\ lastEval = NoEval /\ nReEval = 0
    /\ vwap \in {[i \in {MainInst} |-> NewVwapCalculator(w)] : w \in {0, MaxVwapWindow}}
    /\ fd = NoCall
    /\ StreamInit
    /\ q = NoCall
    /\ ThreadInit

\* the call update(price, volume)
CallVwapUpdate ==
    /\ vwap[MainInst].window > 0 \/ vwap[MainInst].volume_sum < MaxSessionVolume
    /\ \E price \in {None, Some(100), Some(103)},
          volume \in {None, Some(-1), Some(0), Some(1), Some(3)} :
          /\ vwap' = [vwap EXCEPT ![MainInst] = VwapUpdate(@, price, volume)]
          /\ q' = [called |-> TRUE, op |-> "update",
                   in  |-> [calc |-> vwap[MainInst], price |-> price, volume |-> volume],
                   out |-> VwapUpdateReturn(vwap[MainInst], price, volume)]
    /\ UNCHANGED <<storeVars, buffers, lastEval, nReEval, fd, threadVars, streamVars>>

\* the call get_vwap()
CallGetVwap ==
    /\ q' = [called |-> TRUE, op |-> "get_vwap", in |-> [calc |-> vwap[MainInst]],
             out |-> GetVwap(vwap[MainInst])]
    /\ UNCHANGED <<storeVars, engineVars, fd, threadVars, streamVars>>

\* the call get_context(price) for a price
CallVwapGetContext ==
    /\ \E price \in {100, 103} :
          q' = [called |-> TRUE, op |-> "get_context",
                in |-> [calc |-> vwap[MainInst], price |-> price],
                out |-> VwapGetContext(vwap[MainInst], price)]
    /\ UNCHANGED <<storeVars, engineVars, fd, threadVars, streamVars>>

VwapNext == CallVwapUpdate \/ CallGetVwap \/ CallVwapGetContext

SpecVwap == VwapInitial /\ [][VwapNext]_vars

\* C22: while the cumulative volume is zero get_vwap returns no value and
\* get_context the neutral context; an update with volume <= 0, or without a
\* price or a volume, returns no value and leaves the sums, the window deques
\* and vwap_history unchanged.
C22_VwapZeroVolume ==
    /\ (Called("get_vwap") /\ q.in.calc.volume_sum = 0) => q.out = None
    /\ (Called("get_context") /\ q.in.calc.volume_sum = 0) => q.out = NeutralVwapContext
    /\ (Called("update")
          /\ (~q.in.price.some \/ ~q.in.volume.some \/ q.in.volume.v <= 0))
       => (q.out = None /\ vwap[MainInst] = q.in.calc)

\* a windowed calculator that holds two updates was handed a negative volume
C22_Witness ==
    /\ Called("update") /\ q.in.volume = Some(-1) /\ q.in.price.some
    /\ Len(q.in.calc.volume_deque) = MaxVwapWindow
    /\ vwap[MainInst] = q.in.calc

-----------------------------------------------------------------------------
(* The analyzer specification: analyze_liquidity, get_htf_bias,            *)
(* detect_market_regime and analyze_mtf as pure functions.  The initial    *)
(* states draw one call and its arguments; each action makes its call.    *)

\* the bar series handed to detect_market_regime: n bars of width w around
\* 10000; the first n - 10 move by s1 a bar and the last ten by s2, all upwards
\* ("trend") or up and down in turn ("zigzag")
RegimeSeries ==
    [mode : {"trend", "zigzag"}, n : {RegimeMinBars - 1, RegimeBars},
     s1 : {0, 2, 10, 40}, s2 : {0, 2, 8, 10}, w : {0, 10}]

RECURSIVE RegimeLow(_, _)
RegimeLow(ser, k) ==
    IF k = 1 THEN 10000
    ELSE LET step == IF k > ser.n - 10 THEN ser.s2 ELSE ser.s1
         IN  RegimeLow(ser, k - 1)
                + (IF ser.mode = "zigzag" /\ k % 2 = 1 THEN -step ELSE step)

RegimeBarsOf(ser) ==
    [highs  |-> [k \in 1..ser.n |-> RegimeLow(ser, k) + ser.w],
     lows   |-> [k \in 1..ser.n |-> RegimeLow(ser, k)],
     closes |-> [k \in 1..ser.n |-> RegimeLow(ser, k) + ser.w]]

\* the regime of a series
RegimeOf(ser) ==
    DetectMarketRegime(RegimeBarsOf(ser).highs, RegimeBarsOf(ser).lows,
                       RegimeBarsOf(ser).closes)

AnalyzerInitial ==
    /\ StoreInit({MaxCap})
    /\ EngineInit
    /\ fd = NoCall
    /\ StreamInit
    /\ ThreadInit
    /\ LET Volumes   == {0, 1, 2, 4, 8, 12}
           Histories == [1..3 -> Volumes] \cup {<<99, 4, 4, 4>>, <<0, 8, 8, 8>>, <<4, 4>>}
           Others    == {<<0, 0, 0>>, <<1, 2, 2>>, <<2, 2, 2>>, <<4, 4, 4>>, <<8, 8, 8>>,
                         <<12, 12, 12>>, <<12, 12, 0>>, <<8, 4, 0>>, <<0, 4, 2>>,
                         <<0, 12, 0>>, <<99, 0, 8, 8>>, <<4>>}
           flat(n)   == [k \in 1..n |-> 100]
           rise(n)   == [k \in 1..n |-> 100 + k]
           Emas      == EmaSamples
                        \cup {[short |-> Some(10000), long |-> Some(10000),
                               past_short |-> None, past_long |-> None],
                              [short |-> Some(10001), long |-> Some(10000),
                               past_short |-> None, past_long |-> None],
                              [short |-> Some(19000), long |-> Some(10000),
                               past_short |-> Some(18000), past_long |-> Some(10000)]}
           Vwaps     == {None, Some([pv |-> 90, vol |-> 1]), Some([pv |-> 290, vol |-> 2])}
           bull      == [open |-> 100, close |-> 101]
           bear      == [open |-> 100, close |-> 99]
           doji      == [open |-> 100, close |-> 100]
           Candles   == {None, Some(bull), Some(bear), Some(doji)}
           Trails    == {<<>>, <<bear>>, <<bull, bull>>, <<bear, bear>>, <<bear, bear, bear>>,
                         <<bull, bull, bull>>, <<bear, bear, doji>>, <<doji, doji, doji>>}
       IN  q \in [called : {FALSE}, op : {"analyze_liquidity"},
                  in : [a : Histories, b : Others]]
               \cup [called : {FALSE}, op : {"get_htf_bias"},
                     in : [prices : {flat(HtfLongPeriod + 4), flat(HtfLongPeriod + 5),
                                     rise(HtfLongPeriod + 5), rise(HtfLongPeriod + 10),
                                     <<>>},
                           vwap_value : Vwaps, ema : Emas]]
               \cup [called : {FALSE}, op : {"detect_market_regime"}, in : RegimeSeries]
               \cup [called : {FALSE}, op : {"analyze_mtf"},
                     in : [c15 : Candles, c30 : Candles, h15 : Trails, h30 : Trails]]

\* the calls analyze_liquidity(a, min_avg_volume=2, lookback=3) and
\* analyze_liquidity(b, min_avg_volume=2, lookback=3)
CallAnalyzeLiquidity ==
    /\ ~q.called /\ q.op = "analyze_liquidity"
    /\ q' = [called |-> TRUE, op |-> q.op, in |-> q.in,
             out |-> [a |-> AnalyzeLiquidity(q.in.a, 2, 3),
                      b |-> AnalyzeLiquidity(q.in.b, 2, 3)]]
    /\ UNCHANGED <<storeVars, engineVars, fd, threadVars, streamVars>>

\* the call get_htf_bias(prices, vwap_value)
CallGetHtfBias ==
    /\ ~q.called /\ q.op = "get_htf_bias"
    /\ q' = [called |-> TRUE, op |-> q.op, in |-> q.in,
             out |-> GetHtfBias(q.in.prices, q.in.vwap_value, q.in.ema)]
    /\ UNCHANGED <<storeVars, engineVars, fd, threadVars, streamVars>>

\* the call detect_market_regime(highs, lows, closes)
CallDetectMarketRegime ==
    /\ ~q.called /\ q.op = "detect_market_regime"
    /\ q' = [called |-> TRUE, op |-> q.op, in |-> q.in, out |-> RegimeOf(q.in)]
    /\ UNCHANGED <<storeVars, engineVars, fd, threadVars, streamVars>>

\* the call analyze_mtf(candle_15m, candle_30m, history_15m, history_30m)
CallAnalyzeMtf ==
    /\ ~q.called /\ q.op = "analyze_mtf"
    /\ q' = [called |-> TRUE, op |-> q.op, in |-> q.in,
             out |-> AnalyzeMtf(q.in.c15, q.in.c30, q.in.h15, q.in.h30)]
    /\ UNCHANGED <<storeVars, engineVars, fd, threadVars, streamVars>>

AnalyzerNext ==
    CallAnalyzeLiquidity \/ CallGetHtfBias \/ CallDetectMarketRegime \/ CallAnalyzeMtf

SpecAnalyzers == AnalyzerInitial /\ [][AnalyzerNext]_vars

\* the sum of the last three volumes: three times their average
RecentVolume(h) == SumSeq(LastN(h, 3))

\* C25: for two histories of sufficient length with the same consistency
\* classification, the one with the larger average of the last lookback
\* volumes never has the smaller analyze_liquidity score.
C25_LiquidityMonotone ==
    (Called("analyze_liquidity")
       /\ Len(q.in.a) >= 3 /\ Len(q.in.b) >= 3
       /\ q.out.a.consistency = q.out.b.consistency
       /\ RecentVolume(q.in.a) >= RecentVolume(q.in.b))
    => q.out.a.score >= q.out.b.score

\* two unstable histories, the larger average in the higher level
C25_Witness ==
    /\ Called("analyze_liquidity")
    /\ q.out.a.consistency = "UNSTABLE" /\ q.out.b.consistency = "UNSTABLE"
    /\ RecentVolume(q.in.a) > RecentVolume(q.in.b)
    /\ q.out.a.level = "HIGH" /\ q.out.b.level = "MEDIUM"
    /\ q.out.a.score > q.out.b.score

\* C26: every HTFBias returned by get_htf_bias has strength in [0.8, 10], for
\* every input including price lists shorter than long_period + 5 and flat or
\* unavailable EMAs.
C26_HtfStrengthRange ==
    Called("get_htf_bias") => (q.out.strength >= 80 /\ q.out.strength <= 1000)

\* C26 amended: the strength is in [0.5, 10]: 0.5 (direction NEUTRAL) for a
\* price list shorter than long_period + 5 or unavailable EMAs, 1.0 for flat
\* EMAs, and in [0.8, 10] for a BULLISH or BEARISH bias.
C26_HtfStrengthFloors ==
    Called("get_htf_bias") =>
       LET short == Len(q.in.prices) < HtfLongPeriod + 5
           noEma == ~q.in.ema.short.some \/ ~q.in.ema.long.some
       IN  /\ q.out.strength >= 50 /\ q.out.strength <= 1000
           /\ (short \/ noEma) => (q.out.direction = "NEUTRAL" /\ q.out.strength = 50)
           /\ (~short /\ ~noEma /\ q.in.ema.short.v = q.in.ema.long.v)
                 => (q.out.direction = "NEUTRAL" /\ q.out.strength = 100)
           /\ q.out.direction # "NEUTRAL" => q.out.strength >= 80

\* a bullish bias whose strength the lower clamp raised to 0.8
C26_Witness ==
    /\ Called("get_htf_bias")
    /\ q.out.direction = "BULLISH" /\ q.out.strength = 80

\* C27: detect_market_regime returns one of the five states with strength in
\* [0, 10], and each of the five states is returned for at least one input
\* of sufficient length.
C27_FiveRegimes ==
    /\ Called("detect_market_regime")
          => /\ q.out.state \in {"WEAK", "COMPRESSION", "EARLY_TREND", "TRENDING",
                                 "EXHAUSTION"}
             /\ q.out.strength >= 0 /\ q.out.strength <= 10000
    /\ \A st \in {"WEAK", "COMPRESSION", "EARLY_TREND", "TRENDING", "EXHAUSTION"} :
          \E ser \in RegimeSeries : ser.n >= RegimeMinBars /\ RegimeOf(ser).state = st

\* C29: analyze_mtf returns BULLISH only if at least one of the two candles
\* passed in is bullish and BEARISH only if at least one of them is bearish.
C29_DirectionFromCandles ==
    Called("analyze_mtf") =>
       /\ q.out.direction = "BULLISH"
             => \/ q.in.c15.some /\ IsBullish(q.in.c15.v)
                \/ q.in.c30.some /\ IsBullish(q.in.c30.v)
       /\ q.out.direction = "BEARISH"
             => \/ q.in.c15.some /\ IsBearish(q.in.c15.v)
                \/ q.in.c30.some /\ IsBearish(q.in.c30.v)

-----------------------------------------------------------------------------
(* The feed specification: on_message of market_streamer.py over the       *)
(* scanner, the engine and signals_today.  A message carries one entry for *)
(* each of the two instruments, in either order.  An entry is named by     *)
(* what it holds: "noprice" has no numeric ltp, "nobar" a price and no     *)
(* OHLC list, "nohigh" a bar without its high, "badts" a complete bar      *)
(* whose ts is not an ISO timestamp, "quiet" and "fade" complete bars of   *)
(* these shapes.  The first WarmupBars messages carry quiet bars.          *)

RECURSIVE StreamLoop(_, _, _, _, _)

StreamMessages(n) ==
    IF n <= WarmupBars
    THEN {<<[inst |-> "A", kind |-> "quiet"], [inst |-> "B", kind |-> "quiet"]>>}
    ELSE LET Mains  == [inst : {"A"},
                        kind : {"noprice", "nobar", "nohigh", "badts", "quiet", "fade"}]
             Others == [inst : {"B"}, kind : {"quiet", "noprice"}]
         IN  {<<a, b>> : a \in Mains, b \in Others} \cup {<<b, a>> : a \in Mains, b \in Others}

\* what on_message has done so far: the objects it works on, current_prices,
\* whether a call raised, and what became of each entry
StreamEntryNote(e, ingested, evaluated, gate, result) ==
    [inst |-> e.inst, kind |-> e.kind, ingested |-> ingested, evaluated |-> evaluated,
     gate |-> gate, result |-> result]

\* the entry e after evaluate(inst, ltp) gave out: the duplicate guard, the
\* entry handler, and the state the loop goes on with
StreamEvaluated(st, e, day, bar, b1, out) ==
    LET exec == /\ out.eval.result.kind = "decision"
                /\ out.eval.result.state \in {"EXECUTE_LONG", "EXECUTE_SHORT"}
                /\ e.inst \notin st.signals[day]
    IN  [bars        |-> b1,
         bars_closed |-> st.bars_closed + 1,
         inserted    |-> Recorded(st.inserted, e.inst, bar),
         closed      |-> Recorded(st.closed, e.inst, Some(bar)),
         buffers     |-> out.buffers,
         vwap        |-> out.vwap,
         eval        |-> out.eval,
         signals     |-> IF exec THEN [st.signals EXCEPT ![day] = @ \cup {e.inst}]
                         ELSE st.signals,
         entries     |-> IF exec THEN Append(st.entries, [inst |-> e.inst, day |-> day])
                         ELSE st.entries,
         prices      |-> st.prices \cup {e.inst},
         raised      |-> out.eval.result.kind = "raised",
         done        |-> Append(st.done, StreamEntryNote(e, TRUE, TRUE, out.eval.gate,
                                                         out.eval.result))]

\* the entry e with its bar appended to the scanner store (bars b1), then
\* evaluated at the price ltp
StreamAppended(st, e, day, h, bar, b1, ltp) ==
    StreamEvaluated(st, e, day, bar, b1,
                    EvaluateOutcome(b1, st.buffers, st.vwap, e.inst, ltp, h.ema, h.sr))

\* the entry e with the complete bar bar: scanner.append_ohlc_bar, then the
\* evaluation
StreamComplete(st, e, day, h, bar, ltp) ==
    StreamAppended(st, e, day, h, bar, BarsAppended(st.bars, e.inst, bar), ltp)

\* the entry e with a complete bar of the shape sb; ts is passed on as it is
StreamBar(st, e, day, h, sb) ==
    StreamComplete(st, e, day, h,
                   MkBar(IF e.kind = "badts" THEN -1 ELSE FeedTime(Fed(e.inst) + 1),
                         sb[1], sb[2], sb[3], sb[4], sb[5]),
                   sb[4])

\* one pass of the loop over feeds.items(), for the entry e on the day day;
\* h holds the results of the helpers of indicators.py and sr_levels.py
StreamEntry(st, e, day, h) ==
    IF e.kind = "noprice"
    THEN [st EXCEPT !.done = Append(@, StreamEntryNote(e, FALSE, FALSE, "skipped", NoResult))]
    ELSE IF e.kind \in {"nobar", "nohigh"}
    THEN [st EXCEPT !.prices = @ \cup {e.inst},
                    !.done = Append(@, StreamEntryNote(e, FALSE, FALSE, "skipped", NoResult))]
    ELSE
    StreamBar(st, e, day, h, ShapeBar(IF e.kind = "fade" THEN "fade" ELSE "quiet",
                                      LastClose(e.inst)))

\* on_message over the entries of the message from the k-th on: the loop ends
\* with the last entry, or with the exception of a call
StreamLoop(st, msg, k, day, h) ==
    IF k > Len(msg) \/ st.raised THEN st
    ELSE StreamLoop(StreamEntry(st, msg[k], day, h), msg, k + 1, day, h)

\* the call on_message(message): the day's set is created, the entries are
\* worked through until a call raises, handle_exits runs after the loop
OnMessage ==
    /\ messages < WarmupBars + MaxLiveMessages
    /\ messages' = messages + 1
    /\ \E day \in (IF messages >= WarmupBars /\ today < MaxDays THEN {today, today + 1}
                   ELSE {today}),
          msg \in StreamMessages(messages + 1),
          h \in [ema : IF \E i \in Insts : HasEnoughData(bars, i, HtfLongPeriod + 4)
                       THEN EmaSamples ELSE {EmaUnavailable},
                 sr  : IF CallBinds(FinalCallKeywords, FinalTradeDecisionParams)
                       THEN [score : SrSamples, up : BOOLEAN]
                       ELSE {[score |-> 0, up |-> FALSE]}] :
          LET sig0 == IF day \in DOMAIN signals_today THEN signals_today
                      ELSE [d \in DOMAIN signals_today \cup {day} |->
                              IF d = day THEN {} ELSE signals_today[d]]
              st0  == [bars |-> bars, bars_closed |-> bars_closed, inserted |-> inserted,
                       closed |-> closed, buffers |-> buffers, vwap |-> vwap,
                       eval |-> lastEval, signals |-> sig0, entries |-> entries,
                       prices |-> {}, raised |-> FALSE, done |-> <<>>]
          IN  \E st2 \in {StreamLoop(st0, msg, 1, day, h)} :
              /\ today' = day
              /\ bars' = st2.bars
              /\ bars_closed' = st2.bars_closed
              /\ inserted' = st2.inserted
              /\ closed' = st2.closed
              /\ buffers' = st2.buffers
              /\ vwap' = st2.vwap
              /\ lastEval' = st2.eval
              /\ signals_today' = st2.signals
              /\ entries' = st2.entries
              /\ q' = [called |-> TRUE, op |-> "on_message",
                       in  |-> [today |-> day, feeds |-> msg],
                       out |-> [raised |-> st2.raised, exits |-> ~st2.raised,
                                prices |-> st2.prices, done |-> st2.done]]
    /\ UNCHANGED <<max_len, bars_received, nReEval, fd, threadVars>>

StreamInitial ==
    /\ StoreInit({ScannerMaxLen})
    /\ buffers = EmptyMap
    /\ vwap = [i \in Insts |-> NewVwapCalculator(0)]
    /\ lastEval = NoEval
    /\ nReEval = 0
    /\ fd = NoCall
    /\ StreamInit
    /\ q = NoCall
    /\ ThreadInit

StreamNext == OnMessage

SpecStream == StreamInitial /\ [][StreamNext]_vars

\* what became of the k-th entry of the last message; an entry the loop did not
\* reach was neither ingested nor evaluated
EntryNote(k) ==
    IF k <= Len(q.out.done) THEN q.out.done[k]
    ELSE StreamEntryNote(q.in.feeds[k], FALSE, FALSE, "unreached", NoResult)

\* C23: in on_message an instrument whose price or bar fields are malformed or
\* partial (no numeric price, a missing OHLC field, an unusable bar timestamp)
\* is skipped; every other instrument of the message is still ingested and
\* evaluated, the exit handling still runs and on_message does not raise.
\* (Messages in which an evaluation reaches final_trade_decision are left
\* to C4.)
C23_MalformedSkipped ==
    (Called("on_message") /\ \A k \in DOMAIN q.out.done : q.out.done[k].gate # "final")
    => /\ ~q.out.raised
       /\ q.out.exits
       /\ \A k \in DOMAIN q.in.feeds :
             /\ EntryNote(k).kind \in {"noprice", "nohigh", "badts"}
                   => (~EntryNote(k).ingested /\ ~EntryNote(k).evaluated)
             /\ EntryNote(k).kind \in {"quiet", "fade"}
                   => (EntryNote(k).ingested /\ EntryNote(k).evaluated)

====
